---- MODULE Spec2Model ----
(***************************************************************************)
(* Translation pipeline of LNReader-Translations: the multi-engine         *)
(* orchestrator (MultiEngineTranslator), the translation cache             *)
(* (TranslationCache), the engine base class (BaseEngine: credentials and  *)
(* the retrying request), the HTML path (translateHtml) and the standalone *)
(* library (translateChapter / translateText).                             *)
(*                                                                         *)
(* Strings are sequences of UTF-16 code units, as JavaScript sees them.    *)
(***************************************************************************)
EXTENDS Integers, Sequences, FiniteSets, TLC

VARIABLES
    \* ---- MultiEngineTranslator (src/src/translation/utils/user-agents.ts)
    numEngines,          \* this.engines.length
    free,                \* engine index -> engine.free
    useMultipleEngines,  \* this.useMultipleEngines
    mergeStrategy,       \* this.mergeStrategy
    pc,                  \* position of the translate call in flight
    text,                \* argument of the translate call in flight
    engSt,               \* engine index -> "idle" | "pending" | "done"
    engOut,              \* engine index -> outcome of its engine.translate
    results,             \* the results array of translateWithMultipleEngines
    fbOut,               \* outcome of the last-resort fallback call
    retval,              \* value translate returned
    error,               \* error translate raised
    calls,               \* engine index -> engine.translate calls of this translate
    startTime,           \* Date.now() when the translate call started
    prev,                \* the translate call completed before this one,
                         \* and the Map and the stored list it left
    \* ---- TranslationCache and its environment
    cache,               \* the Map, as its entries in insertion order
    storage,             \* localStorage['lnreader_translation_cache']
    storageWorks,        \* localStorage.setItem succeeds
    now,                 \* Date.now(), in ticks
    \* ---- BaseEngine (src/src/translation/engines/base.ts), one instance
    needApiKey,          \* this.needApiKey, as the engine class sets it
    cfgApiKey,           \* config.apiKey
    cfgApiKeys,          \* config.apiKeys
    apiKeys,             \* this.apiKeys
    badApiKeys,          \* this.badApiKeys
    currentApiKey,       \* this.currentApiKey
    revoked,             \* the keys the provider rejects
    ePc,                 \* position of the engine's translate call
    eStatus,             \* how the last translate call ended
    eError,              \* the error the last translate call raised
    attempt,             \* loop variable of request
    fetches,             \* fetch calls of the request in flight
    headerKey,           \* the credential in the headers translate built
    lastError,           \* lastError of request
    carried,             \* the credential the last fetch carried
    rejectedKeys,        \* credentials some rejected fetch carried
    reusedBad,           \* a fetch carried a credential of badApiKeys
    disturbed,           \* the call in flight met a failure unrelated to a
                         \* revoked credential
    eClass,              \* name of the engine class
    eLast,               \* what the last fetch ended with
    eOut,                \* what translate returned: the translation of the
                         \* response, or its own argument
    eRotated,            \* userAgentRotator.getNextHeaders calls of the call
    requestInterval,     \* this.requestInterval, in seconds
    eWaits,              \* the waits of the request: the attempt each
                         \* followed and the delay of its setTimeout
    \* ---- MultiEngineTranslator.translateHtml
    hHtml,               \* the html argument
    hPc,                 \* position of the translateHtml call
    hNodes,              \* textContent of the text nodes collected
    hI,                  \* loop variable i, as the index of the wave's first node
    hWave,               \* the wave in flight: per unit, settled, its result
                         \* and the engines translateWithEngine was called with
    hTranslations,       \* the translations array
    hOut,                \* value translateHtml returned
    hFailed,             \* indices of the nodes whose translation failed
    hCalls,              \* engine calls made for the fragment
    \* ---- src/src/libs/translation.ts
    lHtml,               \* the html / text argument
    lDoc,                \* typeof document !== 'undefined'
    lPc,                 \* position of the call
    lMode,               \* "plain": one translateTextMultiEngine call for
                         \* the whole input; "dom": groups of text nodes
    lUnits,              \* the texts to translate (combinedNodes[k].original)
    lIndices,            \* combinedNodes[k].indices
    lI,                  \* loop variable i, as the index of the wave's first unit
    lWave,               \* the wave in flight: per unit, position and result
    lTranslations,       \* the translations array
    lOut,                \* value returned
    lSucceeded,          \* some engine call of this call succeeded
    \* ---- TranslationCache, its operations called one by one
    damage,              \* what is wrong with the stored list: 0 nothing,
                         \* -1 it is no JSON, k > 0 its k-th element is
                         \* no [key, entry] pair
    cOp,                 \* the operation called last
    cBefore,             \* the Map before it, for loadFromStorage
    cGot,                \* for get: its arguments, the entry found under
                         \* the key and the value returned
    cSweep,              \* for set: the entries its cleanup purged as
                         \* expired, evicted as oldest, and kept
    cCleared,            \* clear was called and set was not called since
    \* ---- UserAgentRotator
    pool,                \* this.pool
    currentIndex,        \* this.currentIndex
    rLast,               \* the method called last, the cursor it found and
                         \* what it returned
    rRun,                \* what the getNextHeaders calls made in a row
                         \* returned, the last pool.length of them
    \* ---- translate calls in flight on one engine instance
    inflight,            \* call -> its position, the credential its fetches
                         \* carry, its loop variable attempt
    \* ---- the fetch helpers of the plugins (src/unnamed/part_003)
    siteFetch            \* the call of fetchApi, fetchFile, fetchText or
                         \* fetchProto made last: its init.headers, the
                         \* headers of its fetch calls, the loop variable and
                         \* the fetch calls of fetchWithRetry, what the last
                         \* fetch ended with, what the call gave

orchVars == <<numEngines, free, useMultipleEngines, mergeStrategy, pc, text,
              engSt, engOut, results, fbOut, retval, error, calls, startTime,
              prev>>
cfgVars == <<numEngines, free, useMultipleEngines, mergeStrategy>>
cacheVars == <<cache, storage, storageWorks, now>>
engineVars == <<needApiKey, cfgApiKey, cfgApiKeys, apiKeys, badApiKeys,
                currentApiKey, revoked, ePc, eStatus, eError, attempt,
                fetches, headerKey, lastError, carried, rejectedKeys,
                reusedBad, disturbed, eClass, eLast, eOut, eRotated,
                requestInterval, eWaits>>
htmlVars == <<hHtml, hPc, hNodes, hI, hWave, hTranslations, hOut, hFailed,
              hCalls>>
libVars == <<lHtml, lDoc, lPc, lMode, lUnits, lIndices, lI, lWave,
             lTranslations, lOut, lSucceeded>>
cacheOpVars == <<damage, cOp, cBefore, cGot, cSweep, cCleared>>
rotVars == <<pool, currentIndex, rLast, rRun>>
vars == <<orchVars, cacheVars, engineVars, htmlVars, libVars, cacheOpVars,
          rotVars, inflight, siteFetch>>
\* what the actions of each component leave alone
besideTranslator == <<engineVars, htmlVars, libVars, cacheOpVars, rotVars,
                     inflight, siteFetch>>
besideEngine == <<orchVars, cacheVars, htmlVars, libVars, cacheOpVars,
                 rotVars, inflight, siteFetch>>
besideHtml == <<orchVars, engineVars, libVars, cacheOpVars, rotVars,
               inflight, siteFetch>>
besideLib == <<orchVars, cacheVars, engineVars, htmlVars,
              cacheOpVars, rotVars, inflight, siteFetch>>

----------------------------------------------------------------------------
\* Bounds of the model
MaxEngines == 3
MaxKeyList == 2
MaxHtmlTokens == 7
MaxLibTokens == 6
\* the strings generateUserAgents builds
MaxAgents == 4
\* translate calls translateHtml has in flight on one engine instance
MaxCalls == 2

\* Program constants, scaled: one tick of `now` stands for the 7 days of ttl;
\* the cache holds maxSize entries and a capacity sweep frees cleanupBatch.
ttl == 1
maxSize == 6
cleanupBatch == 2
\* BaseEngine.requestAttempt
requestAttempt == 3
\* fetchWithRetry: maxRetries, as fetchApi calls it
maxRetries == 3
\* translateHtml: the number of text nodes above which the units go to the
\* free engines one by one (10 in the source, scaled), and above which a wave
\* is a single unit (20 in the source, scaled)
SINGLE_ENGINE_NODES == 4
SEQUENTIAL_NODES == 5
\* translateChapter: MIN_TEXT_LENGTH (50 in the source, scaled), the length
\* at which a group is closed (200 in the source, scaled), MAX_CONCURRENT
MIN_TEXT_LENGTH == 2
MaxGroupLength == 3
MAX_CONCURRENT == 3
\* UserAgentRotator: the cap of the pool (200 in the source, scaled)
PoolCap == 3
\* the clock runs until an entry written at 0 has expired
MaxTime == ttl + 1

----------------------------------------------------------------------------
\* Strings

Null == <<-1>>                \* JavaScript null / undefined
Empty == <<>>                 \* ''
Blank == <<32>>               \* ' '
TextAa == <<65, 97>>          \* 'Aa'
TextBB == <<66, 66>>          \* 'BB'
LangAuto == <<97, 117, 116, 111>>   \* 'auto'
LangEs == <<101, 115>>              \* 'es'

Texts == {Empty, Blank, TextAa}

\* text.trim() is '' : every code unit is a space
\* a test that takes no text for blank
IsBlankNever(s) == FALSE

IsBlank(s) == \A i \in 1..Len(s) : s[i] = 32

\* JavaScript truthiness of a string | null
Truthy(s) == s # Null /\ s # Empty

EngineIds == 1..MaxEngines
\* engine.name; every engine class has its own name
EngineName(i) == <<70 + i>>
\* the translation engine i gives, when it gives one: 'X', 'Y', 'Z'
EngineTranslation(i) == <<87 + i>>

----------------------------------------------------------------------------
\* BaseEngine: credentials

NoKey == "undefined"
Keys == {"k1", "k2"}
\* the lists config.apiKeys may be
KeyLists == UNION {[1..n -> Keys] : n \in 0..MaxKeyList}

Elems(sq) == {sq[i] : i \in 1..Len(sq)}

\* translateHtml is not in use
HtmlIdle ==
    /\ hHtml = Null /\ hPc = "unused" /\ hNodes = <<>> /\ hI = 0
    /\ hWave = <<>> /\ hTranslations = <<>> /\ hOut = Null /\ hFailed = {}
    /\ hCalls = 0

\* the standalone library is not in use
LibIdle ==
    /\ lHtml = Null /\ lDoc = FALSE /\ lPc = "unused" /\ lMode = "none"
    /\ lUnits = <<>> /\ lIndices = <<>> /\ lI = 0 /\ lWave = <<>>
    /\ lTranslations = <<>> /\ lOut = Null /\ lSucceeded = FALSE

\* the operations of the cache are called by the translator only
NoEntry == [key |-> Null]
NoLoad == [at |-> 0, map |-> <<>>]
NoSweep == [ran |-> FALSE, at |-> 0, purged |-> {}, evicted |-> {},
            kept |-> {}]
NoGet == [text |-> Null, engine |-> Null, time |-> 0, had |-> NoEntry,
          value |-> Null]
\* the rotator is not in use
NoCall == [op |-> "none", index |-> 0, headers |-> Null]
\* an object without properties
NoHeaders == [name \in {} |-> ""]

NoSiteFetch ==
    [op |-> "none", pc |-> "ready", retry |-> FALSE, init |-> NoHeaders,
     headers |-> NoHeaders, attempt |-> 0, fetches |-> 0, last |-> "none",
     result |-> <<"none", "none">>]

SiteFetchIdle == siteFetch = NoSiteFetch

RotatorIdle ==
    pool = <<>> /\ currentIndex = 0 /\ rLast = NoCall /\ rRun = <<>>

CacheOpsIdle ==
    /\ damage = 0 /\ cOp = "none" /\ cBefore = NoLoad /\ cGot = NoGet
    /\ cSweep = NoSweep /\ cCleared = FALSE

\* the engine of the model is not in use
EngineIdle ==
    /\ needApiKey = FALSE /\ cfgApiKey = NoKey /\ cfgApiKeys = <<>>
    /\ apiKeys = <<>> /\ badApiKeys = <<>> /\ currentApiKey = NoKey
    /\ revoked = {} /\ ePc = "unused" /\ eStatus = "none" /\ eError = "none"
    /\ attempt = 0 /\ fetches = 0 /\ headerKey = NoKey /\ lastError = "null"
    /\ carried = NoKey /\ rejectedKeys = {} /\ reusedBad = FALSE
    /\ disturbed = FALSE
    /\ eClass = "none" /\ eLast = "none" /\ eOut = "none" /\ eRotated = 0
    /\ requestInterval = 0 /\ eWaits = <<>>
    /\ inflight = <<>>

----------------------------------------------------------------------------
\* TranslationCache

\* hash = (hash << 5) - hash + char; hash = hash & hash: 31 * hash + char in
\* 32-bit two's complement, kept as its <<high, low>> 16-bit halves.
\* toString(36) is one-to-one on 32-bit integers, so the halves are the key.
RECURSIVE hashFrom(_, _, _)
hashFrom(str, i, h) ==
    IF i > Len(str) THEN h
    ELSE LET lo == 31 * h[2] + str[i]
             hi == 31 * h[1] + (lo \div 65536)
         IN  hashFrom(str, i + 1, <<hi % 65536, lo % 65536>>)

hashString(str) == hashFrom(str, 1, <<0, 0>>)

getCacheKey(t, sourceLang, targetLang, engine) ==
    hashString(t \o <<124>> \o sourceLang \o <<124>> \o targetLang
                 \o <<124>> \o engine)

\* position of the entry with this key in the Map, 0 when absent
RECURSIVE IndexOf(_, _, _)
IndexOf(c, key, i) ==
    IF i > Len(c) THEN 0
    ELSE IF c[i].key = key THEN i
    ELSE IndexOf(c, key, i + 1)

RemoveAt(c, i) == SubSeq(c, 1, i - 1) \o SubSeq(c, i + 1, Len(c))

\* an expiry test that already fires at the age ttl
ExpiredAtTtl(entry, t) == t - entry.timestamp >= ttl

Expired(entry, t) == t - entry.timestamp > ttl

\* TranslationCache.get: the value returned
CacheGetValue(c, t, txt, engine) ==
    LET i == IndexOf(c, getCacheKey(txt, LangAuto, LangEs, engine), 1)
    IN  IF i = 0 THEN Null
        ELSE IF Expired(c[i], t) THEN Null
        ELSE c[i].translatedText

\* a get that deletes the entry it finds, expired or not
CacheAfterGetDeletes(c, t, txt, engine) ==
    LET i == IndexOf(c, getCacheKey(txt, LangAuto, LangEs, engine), 1)
    IN  IF i # 0 THEN RemoveAt(c, i) ELSE c

\* TranslationCache.get: the Map afterwards (an expired entry is deleted)
CacheAfterGet(c, t, txt, engine) ==
    LET i == IndexOf(c, getCacheKey(txt, LangAuto, LangEs, engine), 1)
    IN  IF i # 0 /\ Expired(c[i], t) THEN RemoveAt(c, i) ELSE c

\* Array.prototype.sort by timestamp is stable: insertion sort of the entries
RECURSIVE InsertSorted(_, _)
InsertSorted(sorted, e) ==
    IF sorted = <<>> THEN <<e>>
    ELSE IF sorted[Len(sorted)].timestamp <= e.timestamp
         THEN Append(sorted, e)
         ELSE Append(InsertSorted(SubSeq(sorted, 1, Len(sorted) - 1), e),
                     sorted[Len(sorted)])

SortByInsertion(c) == c
RECURSIVE SortByTimestamp(_)
SortByTimestamp(c) ==
    IF c = <<>> THEN <<>>
    ELSE InsertSorted(SortByTimestamp(SubSeq(c, 1, Len(c) - 1)), c[Len(c)])

SeqMin(a, b) == IF a < b THEN a ELSE b

\* TranslationCache.cleanup
cleanup(c, t) ==
    LET live == SelectSeq(c, LAMBDA e : ~Expired(e, t))
    IN  IF Len(live) >= maxSize
        THEN LET sorted == SortByTimestamp(live)
                 n == SeqMin(Len(live), Len(live) - maxSize + cleanupBatch)
                 gone == {sorted[k].key : k \in 1..n}
             IN  SelectSeq(live, LAMBDA e : e.key \notin gone)
        ELSE live

\* TranslationCache.set: the Map afterwards
CacheSet(c, t, originalText, translatedText, engine) ==
    LET c1 == IF Len(c) >= maxSize THEN cleanup(c, t) ELSE c
        key == getCacheKey(originalText, LangAuto, LangEs, engine)
        entry == [key |-> key, originalText |-> originalText,
                  translatedText |-> translatedText, engine |-> engine,
                  timestamp |-> t]
        i == IndexOf(c1, key, 1)
    IN  IF i = 0 THEN Append(c1, entry) ELSE [c1 EXCEPT ![i] = entry]

\* a save that never writes
saveNothing(c, works, old) == old

\* TranslationCache.saveToStorage: a failing setItem is caught and logged
saveToStorage(c, works, old) == IF works THEN c ELSE old

----------------------------------------------------------------------------
\* MultiEngineTranslator

Engines == 1..numEngines

NoOutcome == [ok |-> FALSE, text |-> Null, err |-> "none"]
Errors == {"Failed to fetch"}
\* Every engine class but GoogleFreeTranslate ends translate with
\* `... || text`, never with ''; GoogleFreeTranslate (free, google.ts:181)
\* joins the parts of the response and can return ''. Engine names are
\* unique, so one engine at most is GoogleFreeTranslate: engine 1 when free.
CanReturnEmpty(i) == i = 1 /\ free[1]

\* what a call of engine i's translate can end with
Outcomes(i) ==
    [ok : {TRUE},
     text : {EngineTranslation(i)}
            \cup (IF CanReturnEmpty(i) THEN {Empty} ELSE {}),
     err : {"none"}]
    \cup [ok : {FALSE}, text : {Null}, err : Errors]

\* no call was completed: the Map and the stored list are empty
NoPrev == [status |-> "none", text |-> Null, retval |-> Null,
           calls |-> [i \in EngineIds |-> 0], endTime |-> 0,
           cache |-> <<>>, storage |-> <<>>]

\* translate, lines 360-371: the first cache hit in engine order; each get
\* may delete an expired entry
RECURSIVE CheckCache(_, _, _, _)
CheckCache(c, t, txt, i) ==
    IF i > numEngines THEN [cache |-> c, hit |-> Null]
    ELSE LET v == CacheGetValue(c, t, txt, EngineName(i))
             c1 == CacheAfterGet(c, t, txt, EngineName(i))
         IN  IF Truthy(v) THEN [cache |-> c1, hit |-> v]
             ELSE CheckCache(c1, t, txt, i + 1)

\* translate, lines 386-406: the cache writes after a success
RECURSIVE StoreAll(_, _, _, _, _)
StoreAll(c, t, txt, result, i) ==
    IF i > numEngines THEN c
    ELSE StoreAll(CacheSet(c, t, txt, result, EngineName(i)), t, txt, result,
                  i + 1)

\* the cache write under the name of the first engine only
StoreFirstOnly(c, t, txt, result) ==
    CacheSet(c, t, txt, result, EngineName(1))

StoreResult(c, t, txt, result) ==
    IF useMultipleEngines /\ numEngines > 1
    THEN StoreAll(c, t, txt, result, 1)
    ELSE CacheSet(c, t, txt, result, EngineName(1))

SingleMode == ~useMultipleEngines \/ numEngines = 1

\* await Promise.allSettled(promises)
AllSettledAny == \E i \in Engines : engSt[i] = "done"
AllSettled == \A i \in Engines : engSt[i] = "done"

\* results.filter(r => r.text)
successfulResults == SelectSeq(results, LAMBDA r : Truthy(r.text))

\* this.engines.find(e => e.free), 0 when there is none
FreeEngineLast ==
    IF \E i \in Engines : free[i]
    THEN CHOOSE i \in Engines : free[i] /\ \A j \in Engines : free[j] => j <= i
    ELSE 0
FreeEngine ==
    IF \E i \in Engines : free[i]
    THEN CHOOSE i \in Engines : free[i] /\ \A j \in Engines : free[j] => i <= j
    ELSE 0

mergeResults(rs) ==
    CASE mergeStrategy = "first" -> rs[1].text
      [] mergeStrategy = "vote" -> rs[1].text
      [] mergeStrategy = "average" -> rs[1].text
      [] OTHER -> rs[1].text

\* translateWithEngine: the error it raises for an engine error
translateWithEngineErrorMasked(e) == "All translation engines failed"
translateWithEngineError(e) == e

Completed(status, value, err, c) ==
    /\ pc' = status
    /\ retval' = value
    /\ error' = err
    /\ cache' = c

Finished == pc \in {"returned", "raised"}

\* translate(text) up to its first await
Translate(t) ==
    /\ pc = "idle" \/ (Finished /\ prev.status = "none")
    /\ text' = t
    /\ startTime' = now
    /\ prev' = IF Finished
               THEN [status |-> pc, text |-> text, retval |-> retval,
                     calls |-> calls, endTime |-> startTime,
                     cache |-> cache, storage |-> storage]
               ELSE prev
    /\ results' = <<>>
    /\ fbOut' = NoOutcome
    /\ engOut' = [i \in EngineIds |-> NoOutcome]
    /\ UNCHANGED <<cfgVars, besideTranslator,
                   storage, storageWorks, now>>
    /\ IF IsBlank(t)
       THEN /\ Completed("returned", t, "none", cache)
            /\ engSt' = [i \in EngineIds |-> "idle"]
            /\ calls' = [i \in EngineIds |-> 0]
       ELSE LET chk == CheckCache(cache, now, t, 1)
            IN  IF chk.hit # Null
                THEN /\ Completed("returned", chk.hit, "none", chk.cache)
                     /\ engSt' = [i \in EngineIds |-> "idle"]
                     /\ calls' = [i \in EngineIds |-> 0]
                ELSE IF SingleMode
                THEN /\ Completed("single", Null, "none", chk.cache)
                     /\ engSt' = [i \in EngineIds |->
                                    IF i = 1 THEN "pending" ELSE "idle"]
                     /\ calls' = [i \in EngineIds |-> IF i = 1 THEN 1 ELSE 0]
                ELSE /\ Completed("multi", Null, "none", chk.cache)
                     /\ engSt' = [i \in EngineIds |->
                                    IF i <= numEngines THEN "pending"
                                    ELSE "idle"]
                     /\ calls' = [i \in EngineIds |->
                                    IF i <= numEngines THEN 1 ELSE 0]

\* translateWithMultipleEngines: one engine's promise settles (lines 447-474)
EngineSettles(i, o) ==
    /\ pc = "multi"
    /\ i \in Engines
    /\ engSt[i] = "pending"
    /\ engSt' = [engSt EXCEPT ![i] = "done"]
    /\ engOut' = [engOut EXCEPT ![i] = o]
    /\ results' = IF o.ok
                  THEN Append(results, [text |-> o.text, engine |-> i])
                  ELSE results
    /\ UNCHANGED <<cfgVars, besideTranslator, pc,
                   text, fbOut, retval, error, calls, startTime, prev,
                   cacheVars>>

\* translateWithMultipleEngines after the await (lines 476-496), and the
\* cache writes and return of translate when it returned a result
AfterAllSettled ==
    /\ pc = "multi"
    /\ AllSettled
    /\ UNCHANGED <<cfgVars, besideTranslator, text,
                   engSt, engOut, results, fbOut, startTime, prev,
                   storageWorks, now>>
    /\ IF successfulResults = <<>>
       THEN IF FreeEngine # 0
            THEN /\ Completed("fallback", Null, "none", cache)
                 /\ calls' = [calls EXCEPT ![FreeEngine] = @ + 1]
                 /\ UNCHANGED storage
            ELSE /\ Completed("raised", Null, "All translation engines failed",
                              cache)
                 /\ UNCHANGED <<calls, storage>>
       ELSE LET result == mergeResults(successfulResults)
                c == StoreResult(cache, now, text, result)
            IN  /\ Completed("returned", result, "none", c)
                /\ storage' = saveToStorage(c, storageWorks, storage)
                /\ UNCHANGED calls

\* the last-resort call of the first free engine settles (lines 484-491)
FallbackSettles(o) ==
    /\ pc = "fallback"
    /\ fbOut' = o
    /\ UNCHANGED <<cfgVars, besideTranslator, text,
                   engSt, engOut, results, calls, startTime, prev,
                   storageWorks, now>>
    /\ IF o.ok
       THEN LET c == StoreResult(cache, now, text, o.text)
            IN  /\ Completed("returned", o.text, "none", c)
                /\ storage' = saveToStorage(c, storageWorks, storage)
       ELSE /\ Completed("raised", Null, "All translation engines failed",
                         cache)
            /\ UNCHANGED storage

\* single-engine path: translateWithEngine(this.engines[0]) settles
SingleSettles(o) ==
    /\ pc = "single"
    /\ engSt' = [engSt EXCEPT ![1] = "done"]
    /\ engOut' = [engOut EXCEPT ![1] = o]
    /\ UNCHANGED <<cfgVars, besideTranslator, text,
                   results, fbOut, calls, startTime, prev,
                   storageWorks, now>>
    /\ IF o.ok
       THEN LET c == StoreResult(cache, now, text, o.text)
            IN  /\ Completed("returned", o.text, "none", c)
                /\ storage' = saveToStorage(c, storageWorks, storage)
       ELSE /\ Completed("raised", Null, translateWithEngineError(o.err),
                         cache)
            /\ UNCHANGED storage

\* the clock advances between two translate calls; it is read only against
\* the timestamps of cache entries, so it is left alone while there are none
Tick ==
    /\ Finished /\ prev.status = "none"
    /\ cache # <<>>
    /\ now < MaxTime
    /\ now' = now + 1
    /\ UNCHANGED <<orchVars, cache, storage, storageWorks, besideTranslator>>

Init ==
    /\ SiteFetchIdle
    /\ numEngines \in 1..MaxEngines
    /\ free \in [EngineIds -> BOOLEAN]
    /\ \A i \in EngineIds : i > numEngines => ~free[i]
    /\ useMultipleEngines \in BOOLEAN
    /\ mergeStrategy \in {"first", "vote", "average"}
    /\ pc = "idle"
    /\ text = Null
    /\ engSt = [i \in EngineIds |-> "idle"]
    /\ engOut = [i \in EngineIds |-> NoOutcome]
    /\ results = <<>>
    /\ fbOut = NoOutcome
    /\ retval = Null
    /\ error = "none"
    /\ calls = [i \in EngineIds |-> 0]
    /\ startTime = 0
    /\ prev = NoPrev
    /\ cache = <<>>
    /\ storage = <<>>
    /\ storageWorks \in BOOLEAN
    /\ now = 0
    /\ EngineIdle /\ HtmlIdle /\ LibIdle /\ CacheOpsIdle /\ RotatorIdle

Next ==
    \/ \E t \in Texts : Translate(t)
    \/ \E i \in EngineIds : \E o \in Outcomes(i) : EngineSettles(i, o)
    \/ AfterAllSettled
    \/ \E o \in Outcomes(FreeEngine) : FallbackSettles(o)
    \/ \E o \in Outcomes(1) : SingleSettles(o)
    \/ Tick

Spec == Init /\ [][Next]_vars

----------------------------------------------------------------------------
\* Properties of MultiEngineTranslator.translate

\* the call in flight went to the engines on the multi-engine path
MultiPath == ~SingleMode /\ \E i \in Engines : calls[i] > 0
\* the call in flight went to the single engine
SinglePath == SingleMode /\ calls[1] > 0
\* engine i gave a translation the orchestrator counts as one (line 479)
Succeeded(i) == engSt[i] = "done" /\ Truthy(engOut[i].text)
Failed(i) == engSt[i] = "done" /\ ~Truthy(engOut[i].text)

\* C1: on the multi-engine path translate goes on (to the fallback, to its
\* return or to its error) only when the translate call of every configured
\* engine has settled; with three engines of which the first two failed and
\* the third succeeded it returns the third engine's result.
C1_WaitsForAllThenReturnsSurvivor ==
    /\ (MultiPath /\ pc \in {"fallback", "returned", "raised"})
          => \A i \in Engines : engSt[i] = "done"
    /\ (MultiPath /\ pc = "returned" /\ numEngines = 3
        /\ Failed(1) /\ Failed(2) /\ Succeeded(3))
          => retval = engOut[3].text

C1_Witness ==
    /\ MultiPath /\ pc = "returned" /\ numEngines = 3
    /\ ~engOut[1].ok /\ ~engOut[2].ok /\ engSt[1] = "done" /\ engSt[2] = "done"
    /\ Succeeded(3) /\ retval = EngineTranslation(3)

\* C2: with strategy 'first', when more than one engine succeeded, translate
\* returns the result of the successful engine that is earliest in the
\* configured order, whatever the order in which the calls completed.
C2_FirstInConfiguredOrder ==
    (MultiPath /\ pc = "returned" /\ mergeStrategy = "first"
     /\ Cardinality({i \in Engines : Succeeded(i)}) > 1)
       => \E i \in Engines :
             /\ Succeeded(i)
             /\ \A j \in Engines : Succeeded(j) => i <= j
             /\ retval = engOut[i].text

\* C3: when every configured engine failed: with no free engine translate
\* raises 'all engines failed' and no engine was called again; with a free
\* engine the first free engine in configured order was called exactly once
\* more, and translate returns that call's result or raises 'all engines
\* failed' when that call failed.
C3_AllFailedFallback ==
    (MultiPath /\ Finished /\ \A i \in Engines : Failed(i))
       => IF \A i \in Engines : ~free[i]
          THEN /\ pc = "raised"
               /\ error = "All translation engines failed"
               /\ \A i \in Engines : calls[i] = 1
          ELSE \E f \in Engines :
                  /\ free[f] /\ \A j \in Engines : free[j] => f <= j
                  /\ \A i \in Engines : calls[i] = IF i = f THEN 2 ELSE 1
                  /\ IF fbOut.ok
                     THEN pc = "returned" /\ retval = fbOut.text
                     ELSE pc = "raised"
                          /\ error = "All translation engines failed"

C3_Witness ==
    /\ MultiPath /\ pc = "returned" /\ \A i \in Engines : Failed(i)
    /\ ~free[1] /\ free[2] /\ numEngines = 3 /\ free[3]
    /\ calls[2] = 2 /\ retval = EngineTranslation(2)

\* C4: two successive translate calls for the same non-blank text and
\* the one configured engine, the first of which returned and whose cache
\* entry has not expired, make one engine call at most in total, and the
\* second returns the string the first returned.
C4_SecondCallIsACacheHit ==
    (Finished /\ prev.status = "returned" /\ prev.text = text
     /\ ~IsBlank(text) /\ numEngines = 1 /\ startTime - prev.endTime <= ttl)
       => /\ prev.calls[1] + calls[1] <= 1
          /\ pc = "returned" /\ retval = prev.retval

\* C5: the one error translate raises is 'all engines failed', and it raises
\* it only on the multi-engine path.
C5_OnlyAllEnginesFailed ==
    pc = "raised" => (error = "All translation engines failed" /\ MultiPath)

\* C5 (amended): translate raises 'all engines failed' only on the
\* multi-engine path, after every engine and the fallback call of the first
\* free engine (if any) failed; on the single-engine path it raises the
\* error of that engine's translate, unchanged; it raises nothing else.
C5_RaisesAllFailedOrTheEngineError ==
    pc = "raised" =>
       \/ /\ MultiPath
          /\ error = "All translation engines failed"
          /\ \A i \in Engines : Failed(i)
          /\ (\E i \in Engines : free[i]) => (fbOut # NoOutcome /\ ~fbOut.ok)
       \/ /\ SinglePath
          /\ ~engOut[1].ok
          /\ error = engOut[1].err
          /\ error \in Errors

C5_Witness ==
    pc = "raised" /\ SinglePath /\ error = "Failed to fetch" /\ numEngines = 2



\* the engines translate invokes in a call that misses the cache
Invoked == IF SingleMode THEN {1} ELSE Engines

\* C15: when translate returns a translation after calling engines, a get
\* at the time of the return for the text under the name of every engine
\* invoked gives the translation returned.
C15_WinningTextCachedForEveryEngineInvoked ==
    (pc = "returned" /\ \E i \in Engines : calls[i] > 0) =>
       /\ \A i \in Engines : calls[i] > 0 <=> i \in Invoked
       /\ \A i \in Invoked :
             CacheGetValue(cache, startTime, text, EngineName(i)) = retval

\* a multi-engine call answered by the last-resort engine
C15_Witness ==
    /\ pc = "returned" /\ ~SingleMode /\ numEngines = MaxEngines
    /\ fbOut.ok /\ retval = fbOut.text
    /\ \A i \in Engines : calls[i] > 0

\* C17: translate of an empty or blank text returns the text, calls no
\* engine, and leaves the Map and the stored list as they were.
C17_BlankTextIsReturnedUntouched ==
    [][((pc = "idle" \/ Finished) /\ orchVars' # orchVars
          /\ text' \in {Empty, Blank})
       => /\ pc' = "returned" /\ retval' = text'
          /\ \A i \in EngineIds : calls'[i] = 0 /\ engSt'[i] = "idle"
          /\ cache' = cache /\ storage' = storage]_vars

\* a blank text returned while the Map holds entries
C17_Witness ==
    /\ pc = "returned" /\ text = Blank /\ retval = Blank
    /\ prev.status = "returned" /\ prev.text = TextAa
    /\ cache # <<>>

\* the keys the cache lookup of translate reads for a text
LookupKeys(t) == {getCacheKey(t, LangAuto, LangEs, EngineName(i)) : i \in Engines}

\* C38 as stated: when translate has raised, the Map and the stored list
\* are exactly what the call found.
C38_RaisingCallLeavesTheCacheAlone ==
    pc = "raised" => (cache = prev.cache /\ storage = prev.storage)

\* C38, amended: when translate has raised, the stored list is what the call
\* found, and the Map is the Map the call found without the entries its
\* lookup found expired: no entry was created or changed.
C38_RaisingCallCreatesNoEntry ==
    pc = "raised" =>
       /\ storage = prev.storage
       /\ cache = SelectSeq(prev.cache,
                            LAMBDA e : ~(e.key \in LookupKeys(text)
                                         /\ Expired(e, startTime)))

\* a call that raised after its lookup deleted an expired entry
C38_Witness ==
    /\ pc = "raised" /\ prev.status = "returned"
    /\ prev.cache # <<>> /\ cache # prev.cache

----------------------------------------------------------------------------
\* BaseEngine: construction, credential swap and the retrying request, for an
\* engine class that needs a key (ChatGPTranslate) or none (GoogleFreeTranslate)

\* the engine classes of the model, by their name field
EngineClasses == {"ChatGPT", "Google(Free)", "Google(Free)New"}

\* needApiKey of the class (deepl.ts:223, google.ts:120, google.ts:195)
needApiKeyOf(class) == class = "ChatGPT"

\* getHeaders of the class takes the headers of userAgentRotator
\* (google.ts:129-131, 205-207; not deepl.ts:234-239)
rotatesHeaders(class) == class # "ChatGPT"

\* translate after request returned a 2xx response r: GoogleFreeTranslate
\* throws when the response has neither sentences nor an array; the others
\* end with `|| text`
parseResponse(class, r) ==
    IF r = "ok" THEN [status |-> "ok", error |-> "none", out |-> "translation"]
    ELSE IF class = "Google(Free)"
    THEN [status |-> "failed", out |-> "none",
          error |-> "Unexpected response format from Google Translate"]
    ELSE [status |-> "ok", error |-> "none", out |-> "input"]

\* this.needApiKey while the constructor of BaseEngine runs. `needApiKey = true`
\* of an engine class is a field initializer of the subclass: it runs when
\* super() has returned, so the constructor reads the `false` of base.ts:50.
needApiKeyInConstructor(need) == FALSE

getApiKey(need, keys, cfgKey) ==
    IF need /\ Len(keys) > 0 THEN keys[1] ELSE cfgKey

\* swapApiKey: the fields afterwards, and the value returned
swapApiKey(keys, bad, cur, cfgKey) ==
    LET bad1 == IF cur # NoKey /\ cur \notin Elems(bad)
                THEN Append(bad, cur) ELSE bad
    IN  IF Len(keys) > 0
        THEN LET rest == Tail(keys)
             IN  [apiKeys |-> rest, badApiKeys |-> bad1,
                  currentApiKey |-> IF rest # <<>> THEN rest[1] ELSE cfgKey,
                  swapped |-> TRUE]
        ELSE [apiKeys |-> keys, badApiKeys |-> bad1, currentApiKey |-> cur,
              swapped |-> FALSE]

\* what fetch can end with: a 2xx response, a non-2xx response whose text
\* without the field of the translation, a non-2xx response whose text
\* matches apiKeyErrors, another non-2xx response, a rejection by a network
\* error, a rejection by the abort of AbortSignal.timeout (base.ts:177).
FetchOutcomes == {"ok", "noField", "auth", "http", "neterr", "timeout"}

\* A revoked or missing credential is always rejected.
Responses(k) ==
    IF needApiKey /\ (k = NoKey \/ k \in revoked)
    THEN {"auth"}
    ELSE FetchOutcomes

ErrorOf(r) ==
    CASE r = "auth" -> "HTTP 401"
      [] r = "http" -> "HTTP 500"
      [] r = "timeout" -> "The operation timed out"
      [] OTHER -> "Failed to fetch"

\* a loop test that lets one more attempt through
LoopContinuesOnceMore(a) == a <= requestAttempt

\* the test of the for loop of request (base.ts:173)
LoopContinues(a) == a < requestAttempt

needSwapApiKey(r) == needApiKey /\ Len(apiKeys) > 0 /\ r = "auth"

\* !this.currentApiKey (deepl.ts:267, deepl.ts:127, baidu.ts:81)
missingApiKeyNever(cur) == FALSE
missingApiKey(cur) == cur = NoKey

\* the config.requestInterval values of the model, in seconds
Intervals == {0, 2}

\* this.requestInterval once the engine is constructed: the constructor's
\* config.requestInterval || 0.0 (base.ts:68), which the field initializer
\* `requestInterval = 1.0` of ChatGPTranslate (deepl.ts:228) then replaces
requestIntervalOf(class, interval) == IF class = "ChatGPT" THEN 1 ELSE interval

\* the delay of the setTimeout before the next attempt (base.ts:196-198)
backoffDelay(interval, a) == interval * 1000

\* the headers of a request are those translate built before calling request
\* (deepl.ts:271-279): every fetch of the loop sends the same options
HeadersSent(built, cur) == built

credVars == <<apiKeys, badApiKeys, currentApiKey>>
engineConfig == <<needApiKey, cfgApiKey, cfgApiKeys, revoked, eClass,
                  requestInterval>>

\* fetch(url, options) of attempt a
IssueFetch(a, key, bad) ==
    /\ ePc' = "fetching"
    /\ attempt' = a
    /\ fetches' = fetches + 1
    /\ carried' = key
    /\ reusedBad' = (reusedBad \/ key \in Elems(bad))

\* translate throws
GiveUp(err) ==
    /\ ePc' = "ready"
    /\ eStatus' = "failed"
    /\ eError' = err
    /\ UNCHANGED <<attempt, fetches, carried, reusedBad>>

\* translate of the engine up to its first await (deepl.ts:266-279,
\* google.ts:154-175)
EngineTranslate ==
    /\ ePc = "ready"
    /\ disturbed' = FALSE
    /\ lastError' = "null"
    /\ UNCHANGED <<credVars, engineConfig, rejectedKeys, besideEngine>>
    /\ eLast' = "none"
    /\ eOut' = "none"
    /\ eWaits' = <<>>
    /\ IF needApiKey /\ missingApiKey(currentApiKey)
       THEN /\ ePc' = "ready"
            /\ eStatus' = "failed"
            /\ eError' = "requires an API key"
            /\ fetches' = 0
            /\ eRotated' = 0
            /\ UNCHANGED <<attempt, headerKey, carried, reusedBad>>
       ELSE LET key == IF needApiKey THEN currentApiKey ELSE NoKey
            IN  /\ headerKey' = key
                /\ eRotated' = IF rotatesHeaders(eClass) THEN 1 ELSE 0
                /\ eStatus' = "pending"
                /\ eError' = "none"
                /\ ePc' = "fetching"
                /\ attempt' = 0
                /\ fetches' = 1
                /\ carried' = key
                /\ reusedBad' = (reusedBad \/ key \in Elems(badApiKeys))

\* request: the fetch of this attempt settles (base.ts:173-200)
FetchResponds(r) ==
    /\ ePc = "fetching"
    /\ r \in Responses(carried)
    /\ rejectedKeys' = IF r = "auth" /\ carried # NoKey
                       THEN rejectedKeys \cup {carried} ELSE rejectedKeys
    /\ disturbed' = (disturbed \/ (r # "ok" /\ carried \notin revoked))
    /\ eLast' = r
    /\ UNCHANGED <<engineConfig, headerKey, eRotated, besideEngine>>
    /\ IF r \in {"ok", "noField"}
       THEN /\ ePc' = "ready"
            /\ eStatus' = parseResponse(eClass, r).status
            /\ eError' = parseResponse(eClass, r).error
            /\ eOut' = parseResponse(eClass, r).out
            /\ UNCHANGED <<credVars, attempt, fetches, carried, reusedBad,
                           lastError, eWaits>>
       ELSE IF needSwapApiKey(r)
       THEN LET sw == swapApiKey(apiKeys, badApiKeys, currentApiKey,
                                 cfgApiKey)
            IN  /\ apiKeys' = sw.apiKeys
                /\ badApiKeys' = sw.badApiKeys
                /\ currentApiKey' = sw.currentApiKey
                /\ UNCHANGED <<lastError, eOut, eWaits>>
                \* `continue`: attempt++ and the loop test
                /\ IF LoopContinues(attempt + 1)
                   THEN /\ IssueFetch(attempt + 1,
                                      HeadersSent(headerKey, sw.currentApiKey),
                                      sw.badApiKeys)
                        /\ UNCHANGED <<eStatus, eError>>
                   ELSE GiveUp(IF lastError # "null" THEN lastError
                               ELSE "Translation request failed")
       ELSE /\ lastError' = ErrorOf(r)
            /\ UNCHANGED <<credVars, eOut>>
            /\ IF attempt < requestAttempt - 1
               THEN /\ ePc' = "waiting"
                    /\ eWaits' = Append(eWaits,
                                        [attempt |-> attempt,
                                         delay |-> backoffDelay(requestInterval,
                                                                attempt)])
                    /\ UNCHANGED <<eStatus, eError, attempt, fetches, carried,
                                   reusedBad>>
               ELSE /\ UNCHANGED eWaits
                    /\ IF LoopContinues(attempt + 1)
                       THEN /\ IssueFetch(attempt + 1,
                                          HeadersSent(headerKey, currentApiKey),
                                          badApiKeys)
                            /\ UNCHANGED <<eStatus, eError>>
                       ELSE GiveUp(ErrorOf(r))

\* request: the wait before the next attempt is over (base.ts:195-199)
BackoffElapses ==
    /\ ePc = "waiting"
    /\ IF LoopContinues(attempt + 1)
       THEN /\ IssueFetch(attempt + 1, HeadersSent(headerKey, currentApiKey),
                          badApiKeys)
            /\ UNCHANGED <<eStatus, eError>>
       ELSE GiveUp(lastError)
    /\ UNCHANGED <<credVars, engineConfig, headerKey, lastError, rejectedKeys,
                   disturbed, eLast, eOut, eRotated, eWaits, besideEngine>>

\* no translate call of the translator is made
TranslatorAtRest ==
    /\ pc = "unused" /\ text = Null
    /\ engSt = [i \in EngineIds |-> "idle"]
    /\ engOut = [i \in EngineIds |-> NoOutcome]
    /\ results = <<>> /\ fbOut = NoOutcome /\ retval = Null
    /\ error = "none" /\ calls = [i \in EngineIds |-> 0]
    /\ startTime = 0 /\ prev = NoPrev

\* the translator, with one engine, is not in use
TranslatorIdle ==
    /\ numEngines = 1 /\ free = [i \in EngineIds |-> FALSE]
    /\ useMultipleEngines = FALSE /\ mergeStrategy = "first"
    /\ TranslatorAtRest

\* the cache is not in use
CacheIdle ==
    /\ cache = <<>> /\ storage = <<>> /\ storageWorks = TRUE /\ now = 0

\* new EngineClass(config): BaseEngine's constructor (base.ts:62-71), then
\* the field initializers of the engine class
InitEngine ==
    /\ SiteFetchIdle
    /\ TranslatorIdle /\ CacheIdle /\ HtmlIdle /\ LibIdle /\ CacheOpsIdle
    /\ RotatorIdle
    /\ eClass \in EngineClasses
    /\ needApiKey = needApiKeyOf(eClass)
    /\ cfgApiKey \in Keys \cup {NoKey}
    /\ cfgApiKeys \in KeyLists
    /\ revoked \in SUBSET Keys
    /\ apiKeys = cfgApiKeys
    /\ badApiKeys = <<>>
    /\ currentApiKey = getApiKey(needApiKeyInConstructor(needApiKey),
                                 cfgApiKeys, cfgApiKey)
    /\ ePc = "ready" /\ eStatus = "none" /\ eError = "none"
    /\ attempt = 0 /\ fetches = 0 /\ headerKey = NoKey /\ lastError = "null"
    /\ carried = NoKey /\ rejectedKeys = {} /\ reusedBad = FALSE
    /\ disturbed = FALSE
    /\ eLast = "none" /\ eOut = "none" /\ eRotated = 0
    /\ \E interval \in Intervals :
          requestInterval = requestIntervalOf(eClass, interval)
    /\ eWaits = <<>>
    /\ inflight = <<>>

NextEngine ==
    \/ EngineTranslate
    \/ \E r \in FetchOutcomes : FetchResponds(r)
    \/ BackoffElapses

SpecEngine == InitEngine /\ [][NextEngine]_vars

\* C9: an engine that needs a key, configured with the two credentials k1, k2,
\* of which the provider rejects k1 and accepts k2: a translate call that
\* meets no other failure succeeds, its last request carried k2, k1 is in the
\* bad set afterwards, and no request ever carries a credential of the bad
\* set.
C9_SwapsToTheSecondCredential ==
    (needApiKey /\ cfgApiKeys = <<"k1", "k2">> /\ revoked = {"k1"}
     /\ ePc = "ready" /\ eStatus \in {"ok", "failed"} /\ ~disturbed)
       => /\ eStatus = "ok"
          /\ carried = "k2"
          /\ "k1" \in Elems(badApiKeys)
          /\ ~reusedBad

\* C10: the current credential is unset, or it is one of the remaining
\* credentials (the key list, or the single configured key) and is not in
\* the bad set.
C10_CurrentCredentialIsGood ==
    \/ currentApiKey = NoKey
    \/ /\ currentApiKey \in Elems(apiKeys) \cup {cfgApiKey}
       /\ currentApiKey \notin Elems(badApiKeys)


\* C20: one call of request issues requestAttempt fetches at most.
C20_AtMostRequestAttemptFetches == fetches <= requestAttempt

\* a call that used up its attempts on a credential swap, a network error
\* and a timeout
C20_Witness ==
    /\ ePc = "ready" /\ eStatus = "failed" /\ fetches = requestAttempt
    /\ eError = ErrorOf("timeout") /\ badApiKeys # <<>>
    /\ "k1" \notin revoked /\ "k2" \notin revoked


\* C21: a credential swap is followed at once by the next fetch, and the
\* attempts left after it are those left before the rejected attempt.
C21_SwapRetryIsFree ==
    [][apiKeys' # apiKeys => (ePc' = "fetching" /\ attempt' = attempt)]_vars

\* C22: when request has given up, the error raised is the error of the
\* last fetch.
C22_GiveUpCarriesTheLastError ==
    (ePc = "ready" /\ eStatus = "failed" /\ fetches > 0
     /\ eLast \in {"auth", "http", "neterr", "timeout"})
       => eError = ErrorOf(eLast)

\* C23: after a 2xx response without the field of the translation the call
\* has not succeeded, and it has ended only with its attempts used up.
C23_MissingFieldIsAFailedAttempt ==
    eLast = "noField" =>
       /\ eStatus # "ok"
       /\ ePc = "ready" => fetches = requestAttempt

C25_SwapMovesTheCurrentKey ==
    [][apiKeys' # apiKeys
       => /\ currentApiKey \in Elems(badApiKeys')
          /\ \A a, b \in 1..Len(badApiKeys') :
                badApiKeys'[a] = badApiKeys'[b] => a = b
          /\ apiKeys[1] = currentApiKey
          /\ apiKeys' = Tail(apiKeys)
          /\ currentApiKey' = IF apiKeys' # <<>> THEN apiKeys'[1]
                              ELSE NoKey]_vars

\* C26: an engine that needs a key, constructed with a key list and no
\* single key, has the first key of the list as its current key.
C26_FirstKeyOfTheListIsCurrent ==
    (needApiKey /\ cfgApiKeys # <<>> /\ cfgApiKey = NoKey /\ eStatus = "none")
       => currentApiKey = cfgApiKeys[1]

\* C33: every fetch of a translate call of an engine class that takes its
\* headers from the rotator carries headers of a getNextHeaders call of its
\* own: the call has made as many getNextHeaders calls as fetches.
C33_EveryFetchRotates ==
    rotatesHeaders(eClass) => eRotated = fetches

\* C36: the wait that follows a failed attempt lasts the index of the attempt
\* times the interval (the index counted from 0, or from 1), and no wait
\* follows the last attempt.
C36_WaitsGrowWithTheAttempt ==
    /\ \A k \in 1..Len(eWaits) : eWaits[k].attempt < requestAttempt - 1
    /\ \E first \in {0, 1} :
          \A k \in 1..Len(eWaits) :
             eWaits[k].delay
                = (eWaits[k].attempt + first) * requestInterval * 1000


----------------------------------------------------------------------------
\* One engine instance under the translate calls of a wave of translateHtml
\* (user-agents.ts:551-592): the calls share apiKeys, badApiKeys and
\* currentApiKey, and each runs its own request loop

CallIds == 1..MaxCalls

NotCalled == [pc |-> "idle", carried |-> NoKey, attempt |-> 0]

\* call c: translate of the engine up to the first fetch of its request
CallTranslate(c) ==
    /\ inflight[c].pc = "idle"
    /\ inflight' = [inflight EXCEPT ![c] =
          IF needApiKey /\ missingApiKey(currentApiKey)
          THEN [pc |-> "failed", carried |-> NoKey, attempt |-> 0]
          ELSE [pc |-> "fetching", attempt |-> 0,
                carried |-> IF needApiKey THEN currentApiKey ELSE NoKey]]
    /\ UNCHANGED <<engineVars, orchVars, cacheVars, htmlVars, libVars,
                   cacheOpVars, rotVars, siteFetch>>

\* call c: the fetch of its attempt settles (base.ts:173-200)
CallResponds(c, r) ==
    /\ inflight[c].pc = "fetching"
    /\ r \in Responses(inflight[c].carried)
    /\ rejectedKeys' = IF r = "auth" /\ inflight[c].carried # NoKey
                       THEN rejectedKeys \cup {inflight[c].carried}
                       ELSE rejectedKeys
    /\ LET a == inflight[c].attempt
           sw == swapApiKey(apiKeys, badApiKeys, currentApiKey, cfgApiKey)
       IN  IF r \in {"ok", "noField"}
           THEN /\ inflight' = [inflight EXCEPT
                                  ![c].pc = parseResponse(eClass, r).status]
                /\ UNCHANGED credVars
           ELSE IF needSwapApiKey(r)
           THEN /\ apiKeys' = sw.apiKeys
                /\ badApiKeys' = sw.badApiKeys
                /\ currentApiKey' = sw.currentApiKey
                /\ inflight' = [inflight EXCEPT ![c] =
                      IF LoopContinues(a + 1)
                      THEN [pc |-> "fetching", attempt |-> a + 1,
                            carried |-> HeadersSent(inflight[c].carried,
                                                    sw.currentApiKey)]
                      ELSE [@ EXCEPT !.pc = "failed"]]
           ELSE /\ UNCHANGED credVars
                /\ inflight' = [inflight EXCEPT ![c].pc =
                      IF a < requestAttempt - 1 THEN "waiting"
                      ELSE "failed"]
    /\ UNCHANGED <<engineConfig, ePc, eStatus, eError, attempt, fetches,
                   headerKey, lastError, carried, reusedBad, disturbed,
                   eLast, eOut, eRotated, eWaits, orchVars, cacheVars,
                   htmlVars, libVars, cacheOpVars, rotVars, siteFetch>>

\* call c: the wait before its next attempt is over (base.ts:195-199)
CallBackoffElapses(c) ==
    /\ inflight[c].pc = "waiting"
    /\ inflight' = [inflight EXCEPT ![c].pc = "fetching",
                                    ![c].attempt = @ + 1]
    /\ UNCHANGED <<engineVars, orchVars, cacheVars, htmlVars, libVars,
                   cacheOpVars, rotVars, siteFetch>>

\* the engine as its constructor leaves it, and no call made yet
InitShared ==
    /\ SiteFetchIdle
    /\ TranslatorIdle /\ CacheIdle /\ HtmlIdle /\ LibIdle /\ CacheOpsIdle
    /\ RotatorIdle
    /\ eClass \in EngineClasses
    /\ needApiKey = needApiKeyOf(eClass)
    /\ cfgApiKey \in Keys \cup {NoKey}
    /\ cfgApiKeys \in KeyLists
    /\ revoked \in SUBSET Keys
    /\ apiKeys = cfgApiKeys
    /\ badApiKeys = <<>>
    /\ currentApiKey = getApiKey(needApiKeyInConstructor(needApiKey),
                                 cfgApiKeys, cfgApiKey)
    /\ ePc = "unused" /\ eStatus = "none" /\ eError = "none"
    /\ attempt = 0 /\ fetches = 0 /\ headerKey = NoKey /\ lastError = "null"
    /\ carried = NoKey /\ rejectedKeys = {} /\ reusedBad = FALSE
    /\ disturbed = FALSE
    /\ eLast = "none" /\ eOut = "none" /\ eRotated = 0
    /\ requestInterval = requestIntervalOf(eClass, 0) /\ eWaits = <<>>
    /\ inflight = [c \in CallIds |-> NotCalled]

NextShared ==
    \/ \E c \in CallIds : CallTranslate(c)
    \/ \E c \in CallIds : \E r \in FetchOutcomes : CallResponds(c, r)
    \/ \E c \in CallIds : CallBackoffElapses(c)

SpecShared == InitShared /\ [][NextShared]_vars

\* C27: every key of the bad list is one that a fetch rejected for its
\* credential has carried.
C27_BadKeysWereRejected == Elems(badApiKeys) \subseteq rejectedKeys

----------------------------------------------------------------------------
\* Markup and String.prototype.replace

TagA == <<60, 97, 62>>        \* '<a>'
TagB == <<60, 98, 62>>        \* '<b>'
LetterA == <<97>>             \* 'a'
Dollar == <<36>>              \* '$'
\* '<p>Hello</p><p>World</p>'
Sample == <<60, 112, 62, 72, 101, 108, 108, 111, 60, 47, 112, 62,
            60, 112, 62, 87, 111, 114, 108, 100, 60, 47, 112, 62>>

RECURSIVE Flatten(_)
Flatten(ts) == IF ts = <<>> THEN <<>> ELSE Head(ts) \o Flatten(Tail(ts))

\* the fragments made of at most n of the tokens
FragmentsOf(tokens, n) ==
    {Flatten(ts) : ts \in UNION {[1..m -> tokens] : m \in 0..n}}

\* smallest index i >= from with s[i] = c, Len(s) + 1 if there is none
RECURSIVE Find(_, _, _)
Find(s, c, from) ==
    IF from > Len(s) THEN Len(s) + 1
    ELSE IF s[from] = c THEN from
    ELSE Find(s, c, from + 1)

\* parseFromString(html, 'text/html') on a fragment of start tags, end tags
\* and character data without entities: the tags and the runs of text between
\* them, in document order
RECURSIVE Segments(_)
Segments(s) ==
    IF s = <<>> THEN <<>>
    ELSE IF Head(s) = 60
    THEN LET j == SeqMin(Find(s, 62, 1), Len(s))
         IN  <<[tag |-> TRUE, s |-> SubSeq(s, 1, j)]>>
               \o Segments(SubSeq(s, j + 1, Len(s)))
    ELSE LET j == Find(s, 60, 1)
         IN  <<[tag |-> FALSE, s |-> SubSeq(s, 1, j - 1)]>>
               \o Segments(SubSeq(s, j, Len(s)))

\* the TreeWalker loop: textContent of the text nodes with a non-blank
\* content, in document order
TextNodes(s) ==
    LET segs == SelectSeq(Segments(s), LAMBDA g : ~g.tag /\ ~IsBlank(g.s))
    IN  [k \in 1..Len(segs) |-> segs[k].s]

\* String.prototype.indexOf, 1-based, 0 if pat does not occur in s
RECURSIVE IndexOfSub(_, _, _)
IndexOfSub(s, pat, i) ==
    IF i + Len(pat) - 1 > Len(s) THEN 0
    ELSE IF SubSeq(s, i, i + Len(pat) - 1) = pat THEN i
    ELSE IndexOfSub(s, pat, i + 1)

\* GetSubstitution for a string pattern: $$, $&, $` and $' of the replacement
\* are expanded, every other code unit is copied
RECURSIVE Expand(_, _, _, _)
Expand(rep, matched, before, after) ==
    IF rep = <<>> THEN <<>>
    ELSE IF Head(rep) = 36 /\ Len(rep) >= 2 /\ rep[2] \in {36, 38, 96, 39}
    THEN (CASE rep[2] = 36 -> <<36>>
            [] rep[2] = 38 -> matched
            [] rep[2] = 96 -> before
            [] OTHER -> after)
           \o Expand(SubSeq(rep, 3, Len(rep)), matched, before, after)
    ELSE <<Head(rep)>> \o Expand(Tail(rep), matched, before, after)

\* s.replace(pat, rep) with strings pat and rep: the first occurrence only
Replace(s, pat, rep) ==
    LET i == IndexOfSub(s, pat, 1)
    IN  IF i = 0 THEN s
        ELSE LET before == SubSeq(s, 1, i - 1)
                 after == SubSeq(s, i + Len(pat), Len(s))
             IN  before \o Expand(rep, pat, before, after) \o after

\* translations.forEach(({original, translated}) => ... replace ...)
RECURSIVE ReplaceEach(_, _)
ReplaceEach(s, ts) ==
    IF ts = <<>> THEN s
    ELSE ReplaceEach(Replace(s, Head(ts).original, Head(ts).translated),
                     Tail(ts))

\* the stub engine: upper-cases its input
Upper(s) == [i \in 1..Len(s) |-> IF s[i] \in 97..122 THEN s[i] - 32 ELSE s[i]]

\* the markup with the content of its k-th non-blank text node replaced by
\* new[k], tags and blank text left as they are
RECURSIVE RebuildFrom(_, _, _)
RebuildFrom(segs, new, k) ==
    IF segs = <<>> THEN <<>>
    ELSE IF Head(segs).tag \/ IsBlank(Head(segs).s)
    THEN Head(segs).s \o RebuildFrom(Tail(segs), new, k)
    ELSE new[k] \o RebuildFrom(Tail(segs), new, k + 1)

Rebuild(s, new) == RebuildFrom(Segments(s), new, 1)

----------------------------------------------------------------------------
\* MultiEngineTranslator.translateHtml, with stub engines

\* n text nodes 'a' with a tag between each two
ManyNodes(n) ==
    Flatten([k \in 1..(2 * n - 1) |-> IF k % 2 = 1 THEN LetterA ELSE TagA])

HtmlFragments ==
    FragmentsOf({TagA, TagB, LetterA}, MaxHtmlTokens)
       \cup {Sample, ManyNodes(SINGLE_ENGINE_NODES + 1),
              ManyNodes(SEQUENTIAL_NODES + 1)}

MAX_CONCURRENT_TRANSLATIONS(n) == IF n > SEQUENTIAL_NODES THEN 1 ELSE 3

\* a fragment is never on the path of the free engines
useSingleEngineNever(n) == FALSE

useSingleEngine(n) == n > SINGLE_ENGINE_NODES

\* this.engines.filter(e => e.free), as engine indices
freeEngines == SelectSeq([i \in 1..numEngines |-> i], LAMBDA i : free[i])

\* the engines of the loop of lines 567-578, in its order
enginesToTry ==
    IF Len(freeEngines) > 0 THEN freeEngines ELSE [i \in 1..numEngines |-> i]

\* a single wave of all the nodes that are left
LastOfAll(nodes, i) == Len(nodes)

LastOfWave(nodes, i) ==
    SeqMin(i + MAX_CONCURRENT_TRANSLATIONS(Len(nodes)) - 1, Len(nodes))

\* the callbacks of batch.map run one after the other, each up to its first
\* await: the cache lookups of translate happen in node order before any
\* engine answers. The cache afterwards and the units of the wave.
RECURSIVE WaveStart(_, _, _, _)
WaveStart(c, nodes, k, last) ==
    IF k > last THEN [cache |-> c, wave |-> <<>>]
    ELSE IF IsBlank(nodes[k])
    THEN LET r == WaveStart(c, nodes, k + 1, last)
         IN  [cache |-> r.cache,
              wave |-> <<[settled |-> TRUE, translated |-> nodes[k],
                          tried |-> <<>>]>>
                         \o r.wave]
    ELSE IF useSingleEngine(Len(nodes))
    THEN LET r == WaveStart(c, nodes, k + 1, last)
         IN  [cache |-> r.cache,
              wave |-> <<[settled |-> FALSE, translated |-> Null,
                          tried |-> <<enginesToTry[1]>>]>>
                         \o r.wave]
    ELSE LET chk == CheckCache(c, now, nodes[k], 1)
             r == WaveStart(chk.cache, nodes, k + 1, last)
         IN  [cache |-> r.cache,
              wave |-> <<[settled |-> chk.hit # Null,
                          translated |-> chk.hit,
                          tried |-> <<>>]>> \o r.wave]

Pending(wave) == {j \in 1..Len(wave) : ~wave[j].settled}

\* one iteration of the for loop up to `await Promise.all`
StartWave(nodes, i, callsSoFar) ==
    LET r == WaveStart(cache, nodes, i, LastOfWave(nodes, i))
    IN  /\ hPc' = "wave"
        /\ hI' = i
        /\ hWave' = r.wave
        /\ cache' = r.cache
        /\ hCalls' = callsSoFar + Cardinality(Pending(r.wave))

\* translateHtml(html) up to its first await (lines 525-553)
TranslateHtml ==
    /\ hPc = "ready"
    /\ LET nodes == TextNodes(hHtml)
       IN  /\ hNodes' = nodes
           /\ hTranslations' = <<>>
           /\ hFailed' = {}
           /\ IF nodes = <<>>
              THEN /\ hPc' = "done"
                   /\ hOut' = ReplaceEach(hHtml, <<>>)
                   /\ hCalls' = 0
                   /\ UNCHANGED <<hI, hWave, cache>>
              ELSE /\ StartWave(nodes, 1, 0)
                   /\ UNCHANGED hOut
    /\ UNCHANGED <<hHtml, storage, storageWorks, now, besideHtml>>

\* an engine answers for unit j of the wave. Up to SINGLE_ENGINE_NODES nodes
\* the call is translate, which stores the result (lines 386-406) or raises.
\* Above, it is translateWithEngine of the loop over the free engines: a
\* result ends the loop, an error makes it go on with the next engine, and
\* after the last one lastError is thrown (lines 565-582). The callback
\* catches what is thrown and keeps the original (lines 587-590).
UnitSettles(j, ok) ==
    /\ hPc = "wave"
    /\ j \in Pending(hWave)
    /\ LET k == hI + j - 1
           original == hNodes[k]
           tried == hWave[j].tried
       IN  IF ok
           THEN /\ hWave' = [hWave EXCEPT ![j] =
                               [settled |-> TRUE,
                                translated |-> Upper(original),
                                tried |-> tried]]
                /\ UNCHANGED <<hFailed, hCalls>>
                /\ IF useSingleEngine(Len(hNodes))
                   THEN UNCHANGED <<cache, storage>>
                   ELSE LET c == StoreResult(cache, now, original,
                                             Upper(original))
                        IN  /\ cache' = c
                            /\ storage' = saveToStorage(c, storageWorks,
                                                        storage)
           ELSE IF useSingleEngine(Len(hNodes))
                   /\ Len(tried) < Len(enginesToTry)
           THEN /\ hWave' = [hWave EXCEPT ![j].tried =
                               Append(tried, enginesToTry[Len(tried) + 1])]
                /\ hCalls' = hCalls + 1
                /\ UNCHANGED <<hFailed, cache, storage>>
           ELSE /\ hWave' = [hWave EXCEPT ![j] =
                               [settled |-> TRUE, translated |-> original,
                                tried |-> tried]]
                /\ hFailed' = hFailed \cup {k}
                /\ UNCHANGED <<hCalls, cache, storage>>
    /\ UNCHANGED <<hHtml, hPc, hNodes, hI, hTranslations, hOut,
                   storageWorks, now, besideHtml>>

\* Promise.all of the wave is fulfilled: lines 592-598, and after the last
\* wave the replacements of lines 601-607
AfterWave ==
    /\ hPc = "wave"
    /\ Pending(hWave) = {}
    /\ LET ts == hTranslations \o
                   [j \in 1..Len(hWave) |->
                      [original |-> hNodes[hI + j - 1],
                       translated |-> hWave[j].translated]]
       IN  /\ hTranslations' = ts
           /\ IF LastOfWave(hNodes, hI) < Len(hNodes)
              THEN /\ hPc' = "pause"
                   /\ UNCHANGED hOut
              ELSE /\ hPc' = "done"
                   /\ hOut' = ReplaceEach(hHtml, ts)
    /\ hWave' = <<>>
    /\ UNCHANGED <<hHtml, hNodes, hI, hFailed, hCalls, cacheVars, besideHtml>>

\* the 100 ms between two waves are over
PauseElapses ==
    /\ hPc = "pause"
    /\ StartWave(hNodes, LastOfWave(hNodes, hI) + 1, hCalls)
    /\ UNCHANGED <<hHtml, hNodes, hTranslations, hOut, hFailed, storage,
                   storageWorks, now, besideHtml>>

\* the translator with its engines, and the cache: empty, or holding the
\* translation of 'a' an earlier translate call has stored. The engines and
\* the stored translation are drawn for the fragments of more than
\* SINGLE_ENGINE_NODES text nodes, whose path depends on them.
InitHtml ==
    /\ SiteFetchIdle
    /\ TranslatorAtRest /\ EngineIdle /\ LibIdle
    /\ CacheOpsIdle /\ RotatorIdle
    /\ useMultipleEngines = FALSE /\ mergeStrategy = "first"
    /\ storageWorks = TRUE /\ now = 0
    /\ hHtml \in HtmlFragments
    /\ IF useSingleEngine(Len(TextNodes(hHtml)))
       THEN /\ numEngines \in 1..MaxEngines
            /\ free \in [EngineIds -> BOOLEAN]
            /\ \A i \in EngineIds : i > numEngines => ~free[i]
            /\ cache \in {<<>>, StoreResult(<<>>, 0, LetterA, Upper(LetterA))}
            /\ storage = cache
       ELSE /\ numEngines = 1 /\ free = [i \in EngineIds |-> FALSE]
            /\ cache = <<>> /\ storage = <<>>
    /\ hPc = "ready" /\ hNodes = <<>> /\ hI = 0 /\ hWave = <<>>
    /\ hTranslations = <<>> /\ hOut = Null /\ hFailed = {} /\ hCalls = 0

NextHtml ==
    \/ TranslateHtml
    \/ \E j \in 1..3 : \E ok \in BOOLEAN : UnitSettles(j, ok)
    \/ AfterWave
    \/ PauseElapses

SpecHtml == InitHtml /\ [][NextHtml]_vars

\* what the fragment should become: node k translated unless its translation
\* failed
Expected ==
    Rebuild(hHtml, [k \in 1..Len(hNodes) |->
                      IF k \in hFailed THEN hNodes[k] ELSE Upper(hNodes[k])])

\* C6: when no unit fails, the output is the input with the content of every
\* non-blank text node replaced by the stub's translation of it, tags and
\* attributes as in the input.
C6_OnlyTextContentChanges ==
    (hPc = "done" /\ hFailed = {}) => hOut = Expected

\* no text node's content occurs inside a tag of the fragment
TextClearOfTags ==
    \A k \in 1..Len(hNodes) :
        \A g \in Elems(Segments(hHtml)) :
            g.tag => IndexOfSub(g.s, hNodes[k], 1) = 0

\* C7: when some unit fails, in a fragment whose tags contain none of the
\* texts, every failed unit keeps its original text at its own position and
\* every other unit is translated at its own position.
C7_FailedUnitKeepsItsTextInPlace ==
    (hPc = "done" /\ hFailed # {} /\ TextClearOfTags) => hOut = Expected

\* C31: the units are translated in waves, one wave after the other: at most
\* 3 units are in flight; while a wave is in flight the translations of all
\* the units before it are collected (they have settled) and no unit after
\* it has been started; the collected translations are those of the units,
\* in the order of the units.
C31_WavesAreSequentialAndBounded ==
    /\ Cardinality(Pending(hWave)) <= 3
    /\ \A g \in 1..Len(hTranslations) : hTranslations[g].original = hNodes[g]
    /\ hPc = "wave" => /\ Len(hTranslations) = hI - 1
                       /\ Len(hWave) <= 3
                       /\ hI + Len(hWave) - 1 <= Len(hNodes)
    /\ hPc = "pause" => /\ hWave = <<>>
                        /\ Len(hTranslations) = LastOfWave(hNodes, hI)
    /\ hPc = "done" => Len(hTranslations) = Len(hNodes)

\* the second wave is in flight, after a first wave of three units
C31_Witness ==
    /\ hPc = "wave" /\ hI = 4
    /\ Len(hTranslations) = 3
    /\ Pending(hWave) # {}

\* C32: in a fragment of more than SINGLE_ENGINE_NODES text nodes the engines
\* called for a unit are the free engines in configured order, and a unit
\* keeps its original text only after translate was called for it too, so
\* that the engines translate invokes are among the engines called for it.
C32_FreeEnginesThenTranslate ==
    (hPc = "wave" /\ Len(hNodes) > SINGLE_ENGINE_NODES) =>
       \A j \in 1..Len(hWave) :
          /\ Len(hWave[j].tried) <= Len(enginesToTry)
          /\ hWave[j].tried = SubSeq(enginesToTry, 1, Len(hWave[j].tried))
          /\ (hWave[j].settled /\ (hI + j - 1) \in hFailed)
                => Invoked \subseteq Elems(hWave[j].tried)

\* C39: translateHtml of a fragment of more than SINGLE_ENGINE_NODES text
\* nodes leaves the Map and the stored list as they are, and every unit of a
\* wave it starts waits for an engine, whatever the Map holds.
C39_FreeEnginePathBypassesTheCache ==
    [][Len(hNodes') > SINGLE_ENGINE_NODES
       => /\ cache' = cache /\ storage' = storage
          /\ (hPc' = "wave" /\ hI' # hI)
                => /\ Pending(hWave') = 1..Len(hWave')
                   /\ hCalls' = hCalls + Len(hWave')]_vars

\* the fragment is translated, every unit by an engine, while the Map holds
\* the translation of each of its units
C39_Witness ==
    /\ hPc = "done" /\ Len(hNodes) > SINGLE_ENGINE_NODES
    /\ hFailed = {} /\ hCalls >= Len(hNodes)
    /\ cache # <<>>
    /\ \A k \in 1..Len(hNodes) :
          CacheGetValue(cache, now, hNodes[k], EngineName(1)) = Upper(hNodes[k])

----------------------------------------------------------------------------
\* src/src/libs/translation.ts: translateChapter and translateText

LibInputs ==
    FragmentsOf({TagA, LetterA, Dollar}, MaxLibTokens) \cup {Empty, Blank}

IsLetter(c) == c \in 65..90 \/ c \in 97..122

\* /<[a-z][\s\S]*>/i.test(html)
hasHtml(s) ==
    \E i \in 1..Len(s) :
        /\ s[i] = 60
        /\ i + 1 <= Len(s) /\ IsLetter(s[i + 1])
        /\ \E j \in (i + 2)..Len(s) : s[j] = 62

\* String.prototype.trim
RECURSIVE Trim(_)
Trim(s) ==
    IF s = <<>> THEN s
    ELSE IF Head(s) = 32 THEN Trim(Tail(s))
    ELSE IF s[Len(s)] = 32 THEN Trim(SubSeq(s, 1, Len(s) - 1))
    ELSE s

\* the segmenter, lines 220-248: nodes from the k-th on, with the groups
\* saved so far, currentGroup and currentIndices
RECURSIVE Group(_, _, _, _, _)
Group(nodes, k, groups, currentGroup, currentIndices) ==
    LET saved == IF ~IsBlank(currentGroup)
                 THEN Append(groups, [original |-> currentGroup,
                                      indices |-> currentIndices])
                 ELSE groups
    IN  IF k > Len(nodes) THEN saved
        ELSE IF Len(Trim(nodes[k])) < MIN_TEXT_LENGTH
                /\ Len(currentGroup) < MaxGroupLength
        THEN Group(nodes, k + 1, groups, currentGroup \o nodes[k],
                   Append(currentIndices, k - 1))
        ELSE Group(nodes, k + 1, saved, nodes[k], <<k - 1>>)

\* the groups without the one that is still running when the nodes end
combinedNodesWithoutLast(html) ==
    LET groups == Group(TextNodes(html), 1, <<>>, <<>>, <<>>)
    IN  SubSeq(groups, 1, Len(groups) - 1)

combinedNodes(html) == Group(TextNodes(html), 1, <<>>, <<>>, <<>>)

LibLastOfWave(units, i) == SeqMin(i + MAX_CONCURRENT - 1, Len(units))

\* the units of a wave, each at its call of translateWithGoogle
LibWave(units, i) ==
    [j \in 1..(LibLastOfWave(units, i) - i + 1) |->
        [at |-> "google", translated |-> Null]]

LibReturns(value) ==
    /\ lPc' = "done"
    /\ lOut' = value
    /\ lWave' = <<>>

\* translateTextMultiEngine(input) for the whole input
LibPlain ==
    /\ lMode' = "plain"
    /\ lUnits' = <<lHtml>>
    /\ lIndices' = <<>>
    /\ lI' = 1
    /\ lWave' = LibWave(<<lHtml>>, 1)
    /\ lPc' = "wave"
    /\ UNCHANGED lOut

\* translateChapter(html) up to its first await (lines 183-260)
TranslateChapter ==
    /\ lPc = "ready"
    /\ lTranslations' = <<>>
    /\ lSucceeded' = FALSE
    /\ UNCHANGED <<lHtml, lDoc, besideLib>>
    /\ IF lHtml = Empty \/ IsBlank(lHtml)
       THEN /\ LibReturns(lHtml)
            /\ UNCHANGED <<lMode, lUnits, lIndices, lI>>
       ELSE IF ~hasHtml(lHtml) \/ ~lDoc
       THEN LibPlain
       ELSE LET groups == combinedNodes(lHtml)
                units == [k \in 1..Len(groups) |-> groups[k].original]
            IN  /\ lMode' = "dom"
                /\ lUnits' = units
                /\ lIndices' = [k \in 1..Len(groups) |-> groups[k].indices]
                /\ lI' = 1
                /\ IF groups = <<>>
                   THEN LibReturns(ReplaceEach(lHtml, <<>>))
                   ELSE /\ lWave' = LibWave(units, 1)
                        /\ lPc' = "wave"
                        /\ UNCHANGED lOut

\* translateText(text) up to its first await (lines 320-325)
TranslateText ==
    /\ lPc = "ready"
    /\ lTranslations' = <<>>
    /\ lSucceeded' = FALSE
    /\ UNCHANGED <<lHtml, lDoc, besideLib>>
    /\ IF lHtml = Empty \/ IsBlank(lHtml)
       THEN /\ LibReturns(lHtml)
            /\ UNCHANGED <<lMode, lUnits, lIndices, lI>>
       ELSE LibPlain

\* translateWithGoogle of unit j settles: with a translation, with the ''
\* of a response whose sentences carry no text, or with an error, after
\* which translateTextMultiEngine calls translateWithMicrosoftEdge
GoogleSettles(j, o) ==
    /\ lPc = "wave"
    /\ j \in 1..Len(lWave)
    /\ lWave[j].at = "google"
    /\ lWave' = [lWave EXCEPT ![j] =
                   CASE o = "ok" -> [at |-> "done",
                                     translated |-> Upper(lUnits[lI + j - 1])]
                     [] o = "empty" -> [at |-> "done", translated |-> Empty]
                     [] OTHER -> [at |-> "edge", translated |-> Null]]
    /\ lSucceeded' = (lSucceeded \/ o # "fail")
    /\ UNCHANGED <<lHtml, lDoc, lPc, lMode, lUnits, lIndices, lI,
                   lTranslations, lOut, besideLib>>

\* translateWithMicrosoftEdge of unit j settles: with a translation, or with
\* an error, and translateTextMultiEngine returns the text (line 129)
EdgeSettles(j, ok) ==
    /\ lPc = "wave"
    /\ j \in 1..Len(lWave)
    /\ lWave[j].at = "edge"
    /\ lWave' = [lWave EXCEPT ![j] =
                   [at |-> "done",
                    translated |-> IF ok THEN Upper(lUnits[lI + j - 1])
                                   ELSE lUnits[lI + j - 1]]]
    /\ lSucceeded' = (lSucceeded \/ ok)
    /\ UNCHANGED <<lHtml, lDoc, lPc, lMode, lUnits, lIndices, lI,
                   lTranslations, lOut, besideLib>>

\* the await is over: the value of translateTextMultiEngine is returned, or
\* Promise.all of the wave is fulfilled (lines 278-295)
LibAfterWave ==
    /\ lPc = "wave"
    /\ \A j \in 1..Len(lWave) : lWave[j].at = "done"
    /\ UNCHANGED <<lHtml, lDoc, lMode, lUnits, lIndices, lSucceeded,
                   besideLib>>
    /\ IF lMode = "plain"
       THEN /\ LibReturns(lWave[1].translated)
            /\ UNCHANGED <<lI, lTranslations>>
       ELSE LET ts == lTranslations \o
                        [j \in 1..Len(lWave) |->
                           [original |-> lUnits[lI + j - 1],
                            translated |-> lWave[j].translated,
                            indices |-> lIndices[lI + j - 1]]]
            IN  /\ lTranslations' = ts
                /\ IF LibLastOfWave(lUnits, lI) < Len(lUnits)
                   THEN /\ lI' = lI + MAX_CONCURRENT
                        /\ lWave' = LibWave(lUnits, lI + MAX_CONCURRENT)
                        /\ UNCHANGED <<lPc, lOut>>
                   ELSE /\ LibReturns(ReplaceEach(lHtml, ts))
                        /\ UNCHANGED lI

InitLib ==
    /\ SiteFetchIdle
    /\ TranslatorIdle /\ CacheIdle /\ EngineIdle /\ HtmlIdle
    /\ CacheOpsIdle /\ RotatorIdle
    /\ lHtml \in LibInputs
    /\ lDoc \in BOOLEAN
    /\ lPc = "ready" /\ lMode = "none"
    /\ lUnits = <<>> /\ lIndices = <<>> /\ lI = 0 /\ lWave = <<>>
    /\ lTranslations = <<>> /\ lOut = Null /\ lSucceeded = FALSE

NextLib ==
    \/ TranslateChapter
    \/ TranslateText
    \/ \E j \in 1..MAX_CONCURRENT :
          \E o \in {"ok", "empty", "fail"} : GoogleSettles(j, o)
    \/ \E j \in 1..MAX_CONCURRENT : \E ok \in BOOLEAN : EdgeSettles(j, ok)
    \/ LibAfterWave

SpecLib == InitLib /\ [][NextLib]_vars

\* C8: translateChapter and translateText return a string, and when every
\* engine call made for the input failed, the string is the input.
C8_ReturnsTheInputWhenBothEnginesFail ==
    lPc = "done" => /\ lOut # Null
                    /\ ~lSucceeded => lOut = lHtml

\* C28: every text node whose trimmed length is at least MIN_TEXT_LENGTH is
\* a group of its own: some group covers that node and no other.
C28_LongNodeIsAGroupOfItsOwn ==
    lMode = "dom" =>
       \A k \in 1..Len(TextNodes(lHtml)) :
          Len(Trim(TextNodes(lHtml)[k])) >= MIN_TEXT_LENGTH
             => \E g \in 1..Len(lIndices) : lIndices[g] = <<k - 1>>

\* C29: the groups partition the text nodes in document order: their index
\* lists, one after the other, are 0, 1, ..., n - 1, so that every group is
\* a run of adjacent nodes and every node is in exactly one group; and the
\* text of a group is the texts of its nodes, one after the other.
C29_GroupsPartitionTheNodes ==
    lMode = "dom" =>
       LET nodes == TextNodes(lHtml)
       IN  /\ Len(lUnits) = Len(lIndices)
           /\ Flatten(lIndices) = [k \in 1..Len(nodes) |-> k - 1]
           /\ \A g \in 1..Len(lIndices) :
                 /\ lIndices[g] # <<>>
                 /\ lUnits[g] =
                       Flatten([i \in 1..Len(lIndices[g]) |->
                                  nodes[lIndices[g][i] + 1]])

\* three text nodes grouped into more than one group, one of them of
\* several nodes
C29_Witness ==
    /\ lMode = "dom"
    /\ Len(TextNodes(lHtml)) = 3
    /\ Len(lIndices) > 1
    /\ \E g \in 1..Len(lIndices) : Len(lIndices[g]) > 1

\* C30: when translateChapter has returned, the translated text of every
\* group whose translation succeeded occurs in the returned markup.
C30_TranslatedGroupIsInTheOutput ==
    (lPc = "done" /\ lMode = "dom") =>
       \A g \in 1..Len(lTranslations) :
          (/\ lTranslations[g].translated = Upper(lTranslations[g].original)
           /\ lTranslations[g].translated # lTranslations[g].original)
             => IndexOfSub(lOut, lTranslations[g].translated, 1) # 0

----------------------------------------------------------------------------
\* TranslationCache, its operations called one after the other on the
\* singleton, with a stored list that an earlier session may have left

TextEe == <<69, 101>>         \* 'Ee'
CacheTexts == {TextAa, TextBB, TextEe}

\* the texts an earlier session translated
PriorTexts == <<TextAa, <<112>>, <<113>>, <<114>>, <<115>>, <<116>>>>

EntryOf(txt, translated, engine, t) ==
    [key |-> getCacheKey(txt, LangAuto, LangEs, engine),
     originalText |-> txt, translatedText |-> translated, engine |-> engine,
     timestamp |-> t]

\* the list an earlier session stored after n set calls at time 0
Prior(n) ==
    [i \in 1..n |-> EntryOf(PriorTexts[i], Upper(PriorTexts[i]),
                            EngineName(1), 0)]

PriorStorages == {Prior(0), Prior(maxSize - 1), Prior(maxSize)}

Keys_(c) == {c[i].key : i \in 1..Len(c)}

\* Map.prototype.set: a known key keeps its place
MapSet(c, e) ==
    LET i == IndexOf(c, e.key, 1)
    IN  IF i = 0 THEN Append(c, e) ELSE [c EXCEPT ![i] = e]

\* entries.forEach of loadFromStorage over the first n elements
RECURSIVE LoadEach(_, _, _, _, _)
LoadEach(c, stored, k, n, t) ==
    IF k > n THEN c
    ELSE LoadEach(IF t - stored[k].timestamp <= ttl
                  THEN MapSet(c, stored[k]) ELSE c,
                  stored, k + 1, n, t)

\* TranslationCache.loadFromStorage: the Map afterwards. JSON.parse throws
\* on a text that is no JSON; the callback of forEach throws on an element
\* that is no pair, after the elements before it were handled; the catch
\* logs.
loadFromStorage(c, stored, dmg, t) ==
    IF dmg = -1 THEN c
    ELSE LoadEach(c, stored, 1,
                  IF dmg = 0 THEN Len(stored) ELSE dmg - 1, t)

\* what cleanup does in a set on the Map c at time t
SweepOf(c, t) ==
    IF Len(c) >= maxSize
    THEN LET after == cleanup(c, t)
         IN  [ran |-> TRUE, at |-> t,
              purged |-> {c[i] : i \in {j \in 1..Len(c) : Expired(c[j], t)}},
              evicted |-> {c[i] : i \in {j \in 1..Len(c) :
                              ~Expired(c[j], t) /\ c[j].key \notin Keys_(after)}},
              kept |-> Elems(after)]
    ELSE NoSweep

\* a successful setItem replaces whatever was stored
DamageAfterSave == IF storageWorks THEN 0 ELSE damage

\* translationCache.get(text, 'auto', 'es', engine)
Get(txt, engine) ==
    /\ cOp \in {"none", "get", "set", "clear", "load"}
    /\ cOp' = "get"
    /\ cBefore' = NoLoad
    /\ cSweep' = NoSweep
    /\ cGot' = LET i == IndexOf(cache,
                                getCacheKey(txt, LangAuto, LangEs, engine), 1)
               IN  [text |-> txt, engine |-> engine, time |-> now,
                    had |-> IF i = 0 THEN NoEntry ELSE cache[i],
                    value |-> CacheGetValue(cache, now, txt, engine)]
    /\ cache' = CacheAfterGet(cache, now, txt, engine)
    /\ UNCHANGED <<storage, storageWorks, now, damage, cCleared,
                   orchVars, engineVars, htmlVars, libVars, rotVars,
                   inflight, siteFetch>>

\* translationCache.set(text, translated, 'auto', 'es', engine)
Set(txt, translated, engine) ==
    /\ cOp \in {"none", "get", "set", "clear", "load"}
    /\ cOp' = "set"
    /\ cBefore' = NoLoad
    /\ cGot' = NoGet
    /\ cSweep' = SweepOf(cache, now)
    /\ cCleared' = FALSE
    /\ LET c == CacheSet(cache, now, txt, translated, engine)
       IN  /\ cache' = c
           /\ storage' = saveToStorage(c, storageWorks, storage)
    /\ damage' = DamageAfterSave
    /\ UNCHANGED <<storageWorks, now, orchVars, engineVars, htmlVars,
                   libVars, rotVars,
                   inflight, siteFetch>>

\* translationCache.clear()
Clear ==
    /\ cOp \in {"none", "get", "set", "clear", "load"}
    /\ cOp' = "clear"
    /\ cBefore' = NoLoad
    /\ cGot' = NoGet
    /\ cSweep' = NoSweep
    /\ cCleared' = TRUE
    /\ cache' = <<>>
    /\ storage' = saveToStorage(<<>>, storageWorks, storage)
    /\ damage' = DamageAfterSave
    /\ UNCHANGED <<storageWorks, now, orchVars, engineVars, htmlVars,
                   libVars, rotVars,
                   inflight, siteFetch>>

\* translationCache.loadFromStorage()
LoadFromStorage ==
    /\ cOp \in {"none", "get", "set", "clear", "load"}
    /\ cOp' = "load"
    /\ cBefore' = [at |-> now, map |-> cache]
    /\ cGot' = NoGet
    /\ cSweep' = NoSweep
    /\ cache' = loadFromStorage(cache, storage, damage, now)
    /\ UNCHANGED <<storage, storageWorks, now, damage, cCleared, orchVars,
                   engineVars, htmlVars, libVars, rotVars,
                   inflight, siteFetch>>

\* time passes
CacheTick ==
    /\ cOp \in {"none", "get", "set", "clear", "load"}
    /\ now < MaxTime
    /\ now' = now + 1
    /\ UNCHANGED <<cache, storage, storageWorks, cacheOpVars, orchVars,
                   engineVars, htmlVars, libVars, rotVars,
                   inflight, siteFetch>>

\* the stored list as the session finds it
InitCache ==
    /\ SiteFetchIdle
    /\ TranslatorIdle /\ EngineIdle /\ HtmlIdle /\ LibIdle /\ RotatorIdle
    /\ cache = <<>>
    /\ storage \in PriorStorages
    /\ storageWorks \in BOOLEAN
    /\ now = 0
    /\ damage \in {d \in {-1, 0, 1, 2} : d <= Len(storage)}
    /\ (damage = -1 => storage # <<>>)
    /\ cOp = "none" /\ cBefore = NoLoad /\ cGot = NoGet /\ cSweep = NoSweep
    /\ cCleared = FALSE

NextCache ==
    \/ \E txt \in CacheTexts : Get(txt, EngineName(1))
    \/ \E txt \in CacheTexts : Set(txt, Upper(txt), EngineName(1))
    \/ Clear
    \/ LoadFromStorage
    \/ CacheTick

SpecCache == InitCache /\ [][NextCache]_vars

\* C11: the number of entries of the Map never exceeds maxSize.
C11_SizeNeverExceedsMaxSize == Len(cache) <= maxSize

\* C12: in a set that runs cleanup, the entries purged are expired, no entry
\* kept is expired, and every non-expired entry evicted has a timestamp less
\* than or equal to that of every entry kept.
C12_SweepEvictsTheOldest ==
    (cOp = "set" /\ cSweep.ran) =>
       /\ \A e \in cSweep.purged : cSweep.at - e.timestamp > ttl
       /\ \A e \in cSweep.kept : cSweep.at - e.timestamp <= ttl
       /\ \A e \in cSweep.evicted : \A k \in cSweep.kept :
             e.timestamp <= k.timestamp

C12_Witness ==
    /\ cOp = "set" /\ cSweep.ran
    /\ \E e \in cSweep.evicted : \E k \in cSweep.kept :
          e.timestamp < k.timestamp

\* C13: a get that finds an entry stored at time T returns its translation and
\* leaves it in the Map when t - T <= ttl, and returns null and deletes the
\* entry when t - T > ttl.
C13_GetHonoursTheTimeToLive ==
    (cOp = "get" /\ cGot.had # NoEntry) =>
       IF cGot.time - cGot.had.timestamp <= ttl
       THEN /\ cGot.value = cGot.had.translatedText
            /\ \E i \in 1..Len(cache) : cache[i] = cGot.had
       ELSE /\ cGot.value = Null
            /\ cGot.had.key \notin Keys_(cache)

\* a get at the very age ttl that returned the translation
C13_Witness ==
    /\ cOp = "get" /\ cGot.had # NoEntry
    /\ cGot.time - cGot.had.timestamp = ttl
    /\ cGot.value = cGot.had.translatedText

\* C14: a get that returns a translation returns one that a set stored for
\* exactly the text and the engine of the get.
C14_GetReturnsOnlyItsOwnTuple ==
    (cOp = "get" /\ cGot.value # Null) =>
       /\ cGot.had.originalText = cGot.text
       /\ cGot.had.engine = cGot.engine

\* C18: after clear, a loadFromStorage with no set in between leaves the Map
\* empty.
C18_NothingToRestoreAfterClear ==
    (cCleared /\ cOp = "load") => cache = <<>>

\* C19: loadFromStorage of a readable list leaves in the Map the entries it
\* had and the stored entries not expired at the time of the load, and
\* loadFromStorage of a text that is corrupt, wholly or from some element on,
\* leaves the Map as it was.
C19_CorruptStorageAddsNothing ==
    cOp = "load" =>
       IF damage = 0
       THEN /\ \A i \in 1..Len(storage) :
                  cBefore.at - storage[i].timestamp <= ttl
                     => \E j \in 1..Len(cache) : cache[j] = storage[i]
            /\ \A j \in 1..Len(cache) :
                  \/ \E i \in 1..Len(storage) :
                        /\ storage[i] = cache[j]
                        /\ cBefore.at - storage[i].timestamp <= ttl
                  \/ \E i \in 1..Len(cBefore.map) : cBefore.map[i] = cache[j]
       ELSE cache = cBefore.map

\* C34: a set on a Map that holds maxSize entries, none of them expired,
\* evicts one entry, and the Map holds maxSize entries afterwards when the
\* key set is a new one.
C34_SetAtCapacityFreesOneSlot ==
    (/\ cOp = "set" /\ cSweep.ran /\ cSweep.purged = {}
     /\ Cardinality(cSweep.kept) + Cardinality(cSweep.evicted) = maxSize)
       => /\ Cardinality(cSweep.evicted) = 1
          /\ Len(cache) = Cardinality(cSweep.kept) + 1 => Len(cache) = maxSize

\* the texts some entry of the model is stored for
StoredTexts == CacheTexts \cup Elems(PriorTexts)

\* C35: a set puts its entry into the Map whether the write to the storage
\* succeeds or not; a failing write leaves the stored list alone; after a
\* successful write the stored list is the list of the entries of the Map,
\* and a Map loaded from it at that time or later answers every get as the
\* Map in memory does.
C35_StorageFollowsTheMap ==
    [][(cOp' = "set" /\ now' = now)
       => /\ \E j \in 1..Len(cache') :
                /\ cache'[j].timestamp = now
                /\ cache'[j].translatedText = Upper(cache'[j].originalText)
          /\ ~storageWorks => storage' = storage
          /\ storageWorks =>
                /\ storage' = cache' /\ damage' = 0
                /\ \A t \in now..MaxTime : \A txt \in StoredTexts :
                      CacheGetValue(loadFromStorage(<<>>, storage', damage', t),
                                    t, txt, EngineName(1))
                         = CacheGetValue(cache', t, txt, EngineName(1))]_vars

\* a set whose write succeeded, on a Map of several entries
C35_Witness ==
    /\ cOp = "set" /\ storageWorks
    /\ Len(cache) > 1 /\ storage = cache

----------------------------------------------------------------------------
\* UserAgentRotator: the singleton every engine takes its headers from

\* the userAgents array of generateUserAgents before its duplicates are
\* removed, its strings numbered in the order of their first appearance
RawLists ==
    {r \in [1..MaxAgents -> 1..MaxAgents] :
        /\ r[1] = 1
        /\ \A i \in 2..MaxAgents : \E j \in 1..(i - 1) : r[i] <= r[j] + 1}

\* generateUserAgents, lines 158-166: the first occurrence of each string
RECURSIVE uniqueAgents(_)
uniqueAgents(list) ==
    IF list = <<>> THEN <<>>
    ELSE LET front == uniqueAgents(SubSeq(list, 1, Len(list) - 1))
             agent == list[Len(list)]
         IN  IF agent \in Elems(front) THEN front ELSE Append(front, agent)

\* the orders a random sort or shuffle of a list can leave
Shuffles(list) ==
    {p \in [1..Len(list) -> Elems(list)] :
        \A k \in 1..Len(list) :
           Cardinality({i \in 1..Len(list) : p[i] = list[k]})
              = Cardinality({i \in 1..Len(list) : list[i] = list[k]})}

ACCEPT_LANGUAGES == {"en-US,en;q=0.9", "es-ES,es;q=0.9,en;q=0.8"}

\* the constructor's loop, lines 240-250
poolOf(agents, langs) ==
    [i \in 1..SeqMin(PoolCap, Len(agents)) |->
        [userAgent |-> agents[((i - 1) % Len(agents)) + 1],
         acceptLanguage |-> langs[i]]]

\* a cursor that stays where it is
sameIndex(i, n) == i

\* (this.currentIndex + 1) % this.pool.length
nextIndex(i, n) == (i + 1) % n

\* the headers of a pool entry that tell one device from another
HeadersOf(device) ==
    [UserAgent |-> device.userAgent, AcceptLanguage |-> device.acceptLanguage]

\* userAgentRotator.getNextHeaders(); it runs without await, as one step
getNextHeaders ==
    /\ pool # <<>>
    /\ LET index == currentIndex
           headers == HeadersOf(pool[index + 1])
       IN  /\ currentIndex' = nextIndex(currentIndex, Len(pool))
           /\ rLast' = [op |-> "getNextHeaders", index |-> index,
                        headers |-> headers]
           /\ rRun' = IF Len(rRun) < Len(pool) THEN Append(rRun, headers)
                      ELSE Append(Tail(rRun), headers)
    /\ UNCHANGED <<pool, orchVars, cacheVars, engineVars, htmlVars, libVars,
                   cacheOpVars, inflight, siteFetch>>

\* userAgentRotator.getNextUserAgent()
getNextUserAgent ==
    /\ pool # <<>>
    /\ LET index == currentIndex
       IN  /\ currentIndex' = nextIndex(currentIndex, Len(pool))
           /\ rLast' = [op |-> "getNextUserAgent", index |-> index,
                        headers |-> pool[index + 1].userAgent]
    /\ rRun' = <<>>
    /\ UNCHANGED <<pool, orchVars, cacheVars, engineVars, htmlVars, libVars,
                   cacheOpVars, inflight, siteFetch>>

\* userAgentRotator.getNextAcceptLanguage()
getNextAcceptLanguage ==
    /\ pool # <<>>
    /\ rLast' = [op |-> "getNextAcceptLanguage", index |-> currentIndex,
                 headers |-> pool[currentIndex + 1].acceptLanguage]
    /\ UNCHANGED <<pool, currentIndex, rRun, orchVars, cacheVars, engineVars,
                   htmlVars, libVars, cacheOpVars, inflight, siteFetch>>

\* new UserAgentRotator(), line 299
InitRotator ==
    /\ SiteFetchIdle
    /\ TranslatorIdle /\ CacheIdle /\ EngineIdle /\ HtmlIdle /\ LibIdle
    /\ CacheOpsIdle
    /\ \E raw \in RawLists :
          \E agents \in Shuffles(uniqueAgents(raw)) :
             \E langs \in [1..PoolCap -> ACCEPT_LANGUAGES] :
                pool \in Shuffles(poolOf(agents, langs))
    /\ currentIndex = 0
    /\ rLast = NoCall
    /\ rRun = <<>>

NextRotator ==
    \/ getNextHeaders
    \/ getNextUserAgent
    \/ getNextAcceptLanguage

SpecRotator == InitRotator /\ [][NextRotator]_vars

\* C16: the cursor is a position of the pool; a getNextHeaders call returns
\* the headers of the entry at the cursor it found and leaves the cursor one
\* further, modulo the size of the pool; the headers returned by up to
\* pool.length getNextHeaders calls in a row are pairwise different.
C16_RoundRobinOverDistinctIdentities ==
    /\ currentIndex \in 0..(Len(pool) - 1)
    /\ rLast.op = "getNextHeaders" =>
          /\ rLast.headers.UserAgent = pool[rLast.index + 1].userAgent
          /\ rLast.headers.AcceptLanguage
                = pool[rLast.index + 1].acceptLanguage
          /\ currentIndex = (rLast.index + 1) % Len(pool)
    /\ \A i, j \in 1..Len(rRun) : i # j => rRun[i] # rRun[j]

\* a full round of getNextHeaders calls over a pool cut to its cap, the last
\* of which wrapped the cursor
C16_Witness ==
    /\ Len(pool) = PoolCap /\ Len(rRun) = Len(pool)
    /\ rLast.op = "getNextHeaders" /\ rLast.index = Len(pool) - 1
    /\ currentIndex = 0
    /\ \E i, j \in 1..Len(pool) :
          i # j /\ pool[i].acceptLanguage = pool[j].acceptLanguage

----------------------------------------------------------------------------
\* The fetch helpers of the plugins: fetchApi with fetchWithRetry, fetchFile,
\* fetchText and fetchProto, beside the rotator the engines use

\* defaultHeaders of makeInit
defaultHeaders ==
    ("Connection" :> "keep-alive") @@ ("Accept" :> "*/*")
       @@ ("Accept-Language" :> "*") @@ ("Sec-Fetch-Mode" :> "cors")
       @@ ("Accept-Encoding" :> "gzip, deflate, br")

\* the init.headers a plugin passes: none, or an object of its own
InitHeaders ==
    {NoHeaders, "Accept" :> "text/html", "User-Agent" :> "Plugin/1.0"}

\* headers that begin with those of the rotator's next entry
makeInitRotating(headers) ==
    headers @@ ("User-Agent" :> "rotated") @@ defaultHeaders

\* makeInit(init).headers, for init.headers absent or a plain object
makeInit(headers) ==
    IF headers = NoHeaders THEN defaultHeaders ELSE headers @@ defaultHeaders

SiteOps == {"fetchApi", "fetchFile", "fetchText", "fetchProto"}

\* what a fetch can end with: a response with a 2xx, 4xx or 5xx status, a
\* rejection by the abort of the 30 s timer, a rejection by a network error
SiteOutcomes == {"2xx", "4xx", "5xx", "abort", "neterr"}

\* a loop that goes on after every failure while attempts remain
retriesEveryFailure(r, a) == r # "2xx" /\ a < maxRetries - 1

\* fetchWithRetry goes on to another attempt after the fetch of attempt a
\* ended with r (lines 69 and 81)
retries(r, a) ==
    CASE r = "5xx" -> a < maxRetries - 1
      [] r = "neterr" -> ~(a = maxRetries - 1)
      [] OTHER -> FALSE

\* what the call gives when its last fetch ended with r
resultOf(op, r) ==
    IF op = "fetchApi"
    THEN IF r \in {"abort", "neterr"} THEN <<"raised", r>>
         ELSE <<"returned", r>>
    ELSE IF op = "fetchProto"
    THEN IF r \in {"abort", "neterr"} THEN <<"raised", r>>
         ELSE <<"returned", "message">>
    ELSE IF r = "2xx" THEN <<"returned", "content">>
         ELSE <<"returned", "">>

\* a helper is called, up to its fetch
SiteFetch(op, headers, skipRetry) ==
    /\ siteFetch.pc \in {"ready", "done"}
    /\ siteFetch' = [op |-> op, pc |-> "fetching",
                     retry |-> (op = "fetchApi" /\ ~skipRetry),
                     init |-> headers, headers |-> makeInit(headers),
                     attempt |-> 0, fetches |-> 1, last |-> "none",
                     result |-> <<"none", "none">>]
    /\ UNCHANGED <<orchVars, cacheVars, engineVars, htmlVars, libVars,
                   cacheOpVars, rotVars, inflight>>

\* the fetch in flight settles
SiteFetchResponds(r) ==
    /\ siteFetch.pc = "fetching"
    /\ siteFetch' =
          IF siteFetch.retry /\ retries(r, siteFetch.attempt)
          THEN [siteFetch EXCEPT !.pc = "waiting", !.last = r]
          ELSE [siteFetch EXCEPT !.pc = "done", !.last = r,
                                 !.result = resultOf(siteFetch.op, r)]
    /\ UNCHANGED <<orchVars, cacheVars, engineVars, htmlVars, libVars,
                   cacheOpVars, rotVars, inflight>>

\* fetchWithRetry: the wait of retryDelay * (attempt + 1) is over; attempt++
\* and the test of the loop
RetryDelayElapses ==
    /\ siteFetch.pc = "waiting"
    /\ siteFetch' =
          IF siteFetch.attempt + 1 < maxRetries
          THEN [siteFetch EXCEPT !.pc = "fetching", !.attempt = @ + 1,
                                 !.fetches = @ + 1, !.last = "none"]
          ELSE [siteFetch EXCEPT !.pc = "done",
                                 !.result = <<"raised", siteFetch.last>>]
    /\ UNCHANGED <<orchVars, cacheVars, engineVars, htmlVars, libVars,
                   cacheOpVars, rotVars, inflight>>

\* the rotator of a session with two identities, and no helper called yet
InitFetch ==
    /\ TranslatorIdle /\ CacheIdle /\ EngineIdle /\ HtmlIdle /\ LibIdle
    /\ CacheOpsIdle /\ SiteFetchIdle
    /\ pool = poolOf(<<1, 2>>, [i \in 1..PoolCap |-> "en-US,en;q=0.9"])
    /\ currentIndex \in 0..(Len(pool) - 1)
    /\ rLast = NoCall
    /\ rRun = <<>>

\* the plugins call the helpers while the engines take headers of the rotator
NextFetch ==
    \/ \E op \in SiteOps : \E headers \in InitHeaders :
          \E skipRetry \in BOOLEAN : SiteFetch(op, headers, skipRetry)
    \/ \E r \in SiteOutcomes : SiteFetchResponds(r)
    \/ RetryDelayElapses
    \/ getNextHeaders

SpecFetch == InitFetch /\ [][NextFetch]_vars

\* C37: no step of fetchApi, fetchFile, fetchText or fetchProto changes the
\* rotator, and the headers of their fetch calls are the default headers,
\* with the caller's own headers in place of or beside them.
C37_SiteFetchesLeaveTheRotatorAlone ==
    [][siteFetch' # siteFetch
       => /\ rotVars' = rotVars
          /\ DOMAIN siteFetch'.headers
                = DOMAIN defaultHeaders \cup DOMAIN siteFetch'.init
          /\ \A name \in DOMAIN siteFetch'.headers :
                siteFetch'.headers[name]
                   = IF name \in DOMAIN siteFetch'.init
                     THEN siteFetch'.init[name]
                     ELSE defaultHeaders[name]]_vars

\* a fetchApi call that made several fetches, without headers of its own,
\* after the engines have taken headers of the rotator
C37_Witness ==
    /\ siteFetch.op = "fetchApi" /\ siteFetch.pc = "done"
    /\ siteFetch.fetches > 1 /\ siteFetch.init = NoHeaders
    /\ siteFetch.headers = defaultHeaders
    /\ rLast.op = "getNextHeaders" /\ currentIndex = 1

\* C40: a fetchApi call with retries makes at most maxRetries fetches; a 2xx
\* or 4xx response is returned at once; a 5xx response is followed by
\* another attempt while attempts remain and is returned on the last one; an
\* aborted fetch is raised at once; another fetch error is followed by
\* another attempt until the last one and raised then.
C40_FetchWithRetry ==
    siteFetch.retry =>
       /\ siteFetch.fetches <= maxRetries
       /\ siteFetch.fetches = siteFetch.attempt + 1
       /\ siteFetch.pc = "fetching" => siteFetch.last = "none"
       /\ siteFetch.last \in {"2xx", "4xx"} =>
             /\ siteFetch.pc = "done"
             /\ siteFetch.result = <<"returned", siteFetch.last>>
       /\ siteFetch.last = "abort" =>
             /\ siteFetch.pc = "done"
             /\ siteFetch.result = <<"raised", "abort">>
       /\ siteFetch.last = "5xx" =>
             IF siteFetch.attempt < maxRetries - 1
             THEN siteFetch.pc = "waiting"
             ELSE /\ siteFetch.pc = "done"
                  /\ siteFetch.result = <<"returned", "5xx">>
       /\ siteFetch.last = "neterr" =>
             IF siteFetch.attempt < maxRetries - 1
             THEN siteFetch.pc = "waiting"
             ELSE /\ siteFetch.pc = "done"
                  /\ siteFetch.result = <<"raised", "neterr">>

\* a 5xx response returned to the caller by the last of maxRetries fetches
C40_Witness ==
    /\ siteFetch.retry /\ siteFetch.pc = "done"
    /\ siteFetch.fetches = maxRetries
    /\ siteFetch.result = <<"returned", "5xx">>

====
